---- MODULE Spec2Model ----
(***************************************************************************)
(* swagger-enforcer: the recursive schema Validator (bin-2/validate.js)    *)
(* and the Enforcer that keeps a live array or object compliant with its   *)
(* schema while it is mutated.                                             *)
(*                                                                         *)
(* JavaScript values are tagged records, schema nodes live in an arena     *)
(* keyed by name (the name stands for the node's object identity), and a   *)
(* thrown exception is the flag `raised` of the validation context.        *)
(***************************************************************************)
EXTENDS Integers, Sequences, FiniteSets, TLC

VARIABLES
    call,       \* the validate() call under way: schema, value, options, errors before
    errors,     \* v.errors after the call
    raised,     \* TRUE when the call threw instead of returning
    done,       \* TRUE once the call has run
    enforced,   \* the Enforcer's state: governing schema, rule set, live value
    attempt,    \* the last wrap or mutation attempt on the enforced value
    derived,    \* a second enforced value: an array derived from the enforced
                \* array, or a nested value read out of the enforced value
    made,       \* the Materializer's call and, once it has run, its result
    frame,      \* the call a walk down the recursion of validate or of
                \* applyTemplate has reached
    handled     \* the request handed to exports.request and, once it has run,
                \* what the caller gets

vars == <<call, errors, raised, done, enforced, attempt, derived, made, frame, handled>>

-----------------------------------------------------------------------------
(* Bounds of the model *)

MaxLen == 2          \* longest array an unbounded schema may grow to
MaxInsert == 2       \* most elements one push / unshift / splice introduces

-----------------------------------------------------------------------------
(* JavaScript values *)

Undefined == [t |-> "undefined"]
Null == [t |-> "null"]
Hole == [t |-> "hole"]                                  \* an empty array slot
Bool(b) == [t |-> "boolean", v |-> b]
Num(n) == [t |-> "number", v |-> n, frac |-> FALSE]     \* the integer n
Half(n) == [t |-> "number", v |-> n, frac |-> TRUE]     \* n + 0.5
Str(s) == [t |-> "string", v |-> s]
Arr(s) == [t |-> "array", v |-> s]
Obj(s) == [t |-> "object", v |-> s]                     \* s: <<[k, v], ...>> in insertion order
Prop(k, x) == [k |-> k, v |-> x]
Ref(a) == [t |-> "ref", a |-> a]                        \* the object or array stored at address a

Typeof(x) ==
    CASE x.t \in {"undefined", "hole"} -> "undefined"
      [] x.t \in {"null", "array", "object"} -> "object"
      [] OTHER -> x.t

Truthy(x) ==
    CASE x.t \in {"undefined", "hole", "null"} -> FALSE
      [] x.t = "boolean" -> x.v
      [] x.t = "number" -> x.v # 0 \/ x.frac
      [] x.t = "string" -> x.v # ""
      [] OTHER -> TRUE

IsArray(x) == x.t = "array"

IndexKey == <<"0", "1", "2", "3", "4", "5", "6", "7", "8", "9">>

SeqIndices(s) == 1..Len(s)

SelectIndices(s, i) ==
    \* the indices j >= i of s that hold an element, in order
    LET F[j \in 0..Len(s)] ==
            IF j = 0 THEN <<>>
            ELSE IF j >= i /\ s[j].t # "hole" THEN Append(F[j - 1], j) ELSE F[j - 1]
    IN F[Len(s)]

\* Object.keys(value): own enumerable keys, array holes skipped
ObjectKeys(value) ==
    CASE value.t = "object" -> [i \in SeqIndices(value.v) |-> value.v[i].k]
      [] value.t = "array" ->
            LET idx == SelectIndices(value.v, 1)
            IN [i \in SeqIndices(idx) |-> IndexKey[idx[i]]]
      [] OTHER -> <<>>

KeySet(value) == {ObjectKeys(value)[i] : i \in SeqIndices(ObjectKeys(value))}

\* value[key]
GetProp(value, key) ==
    CASE value.t = "object" /\ key \in KeySet(value) ->
            (CHOOSE i \in SeqIndices(value.v) : value.v[i].k = key)
      [] OTHER -> 0

PropValue(value, key) ==
    CASE value.t = "object" /\ key \in KeySet(value) -> value.v[GetProp(value, key)].v
      [] value.t = "array" /\ key \in KeySet(value) ->
            value.v[CHOOSE i \in SeqIndices(value.v) : IndexKey[i] = key]
      [] OTHER -> Undefined

\* an array element as a read sees it: a hole reads as undefined
Elem(x) == IF x.t = "hole" THEN Undefined ELSE x

RECURSIVE same(_, _)
\* util.same: deep structural equality, arrays element by element, objects key by key
same(a, b) ==
    CASE a.t = "array" /\ b.t = "array" ->
            /\ Len(a.v) = Len(b.v)
            /\ \A i \in SeqIndices(a.v) : same(Elem(a.v[i]), Elem(b.v[i]))
      [] a.t = "object" /\ b.t = "object" ->
            /\ KeySet(a) = KeySet(b)
            /\ \A k \in KeySet(a) : same(PropValue(a, k), PropValue(b, k))
      [] OTHER -> Elem(a) = Elem(b)

-----------------------------------------------------------------------------
(* Schema nodes.  `has` lists the keywords a node carries (hasOwnProperty, *)
(* or a truthy array / object / string keyword); the other fields hold the  *)
(* keywords' values.  A node refers to another node by its name.            *)

Base ==
    [has |-> {}, type |-> "", format |-> "", items |-> "", properties |-> <<>>,
     additionalProperties |-> "", required |-> <<>>, enum |-> <<>>,
     maxItems |-> 0, minItems |-> 0, uniqueItems |-> FALSE,
     maxProperties |-> 0, minProperties |-> 0,
     maximum |-> 0, minimum |-> 0, exclusiveMaximum |-> FALSE, exclusiveMinimum |-> FALSE,
     multipleOf |-> 0, maxLength |-> 0, minLength |-> 0, pattern |-> "",
     anyOf |-> <<>>, oneOf |-> <<>>, allOf |-> <<>>, not |-> "", discriminator |-> "",
     default |-> Undefined, xVariable |-> "", xTemplate |-> ""]

Typed(t) == [has |-> {"type"}, type |-> t]

ArrayOf(item) == [has |-> {"type", "items"}, type |-> "array", items |-> item]

Schemas ==
    [number     |-> Typed("number"),
     integer    |-> Typed("integer"),
     string     |-> Typed("string"),
     boolean    |-> Typed("boolean"),
     short      |-> [type |-> "string", has |-> {"type", "maxLength", "pattern"},
                        maxLength |-> 1, pattern |-> "^[abc]$"],
     bits       |-> [type |-> "string", format |-> "binary",
                        has |-> {"type", "format", "maxLength"}, maxLength |-> 1],
     bytes      |-> [type |-> "string", format |-> "byte",
                        has |-> {"type", "format", "maxLength"}, maxLength |-> 1],
     dated      |-> [type |-> "string", format |-> "date",
                        has |-> {"type", "format", "maxLength"}, maxLength |-> 1],
     stamped    |-> [type |-> "string", format |-> "date-time",
                        has |-> {"type", "format", "maxLength"}, maxLength |-> 1],
     emailed    |-> [type |-> "string", format |-> "email",
                        has |-> {"type", "format", "maxLength"}, maxLength |-> 1],
     atLeast1   |-> [type |-> "number", has |-> {"type", "minimum"}, minimum |-> 1],
     below2     |-> [type |-> "number", has |-> {"type", "maximum", "exclusiveMaximum"},
                        maximum |-> 2, exclusiveMaximum |-> TRUE],
     above1     |-> [type |-> "number", has |-> {"type", "minimum", "exclusiveMinimum"},
                        minimum |-> 1, exclusiveMinimum |-> TRUE],
     most1      |-> [type |-> "integer", has |-> {"type", "maximum"}, maximum |-> 1],
     oneOrTwo   |-> [type |-> "number", has |-> {"type", "enum"},
                        enum |-> <<Num(1), Num(2)>>],
     even       |-> [type |-> "integer", has |-> {"type", "multipleOf"}, multipleOf |-> 2],
     anyNumStr  |-> [has |-> {"anyOf"}, anyOf |-> <<"number", "string">>],
     anyBounds  |-> [has |-> {"anyOf"}, anyOf |-> <<"integer", "below2">>],
     oneNumStr  |-> [has |-> {"oneOf"}, oneOf |-> <<"number", "string">>],
     oneNumInt  |-> [has |-> {"oneOf"}, oneOf |-> <<"number", "integer">>],
     anyNested  |-> [has |-> {"anyOf"}, anyOf |-> <<"oneNumInt", "boolean">>],
     allBounds  |-> [has |-> {"allOf"}, allOf |-> <<"atLeast1", "below2">>],
     notNumber  |-> [has |-> {"not"}, not |-> "number"],
     numbers    |-> ArrayOf("number"),
     strings    |-> ArrayOf("string"),
     anyArray   |-> Typed("array"),
     limited    |-> [type |-> "array", has |-> {"type", "maxItems"}, maxItems |-> 1],
     fixed      |-> [type |-> "array", has |-> {"type", "minItems", "maxItems"},
                        minItems |-> 2, maxItems |-> 2],
     unique     |-> [type |-> "array", items |-> "number", has |-> {"type", "items", "uniqueItems", "minItems", "maxItems"},
                        uniqueItems |-> TRUE, minItems |-> 1, maxItems |-> 3],
     anyObject  |-> Typed("object"),
     record     |-> [type |-> "object", has |-> {"type", "properties", "required", "minProperties",
                                 "maxProperties"},
                        properties |-> <<Prop("foo", "number"), Prop("bar", "string")>>,
                        required |-> <<"foo">>, minProperties |-> 1, maxProperties |-> 2],
     sized      |-> [type |-> "object", has |-> {"type", "minProperties", "maxProperties"},
                        minProperties |-> 1, maxProperties |-> 2],
     closed     |-> [type |-> "object", has |-> {"type", "properties", "additionalProperties"},
                        properties |-> <<Prop("foo", "number")>>,
                        additionalProperties |-> "false"],
     open       |-> [type |-> "object", has |-> {"type", "properties", "additionalProperties"},
                        properties |-> <<Prop("foo", "string")>>,
                        additionalProperties |-> "number"],
     needsFoo   |-> [has |-> {"properties", "required"},
                        properties |-> <<Prop("foo", "anything")>>,
                        required |-> <<"foo">>],
     needsBar   |-> [has |-> {"required"}, required |-> <<"bar">>],
     strict     |-> [type |-> "object",
                        has |-> {"type", "properties", "required", "additionalProperties",
                                 "maxProperties"},
                        properties |-> <<Prop("foo", "number")>>, required |-> <<"baz">>,
                        additionalProperties |-> "false", maxProperties |-> 1],
     stricts    |-> ArrayOf("strict"),
     rows       |-> ArrayOf("unique"),
     paired     |-> [has |-> {"allOf"}, allOf |-> <<"needsBar", "record">>],
     fooString  |-> [has |-> {"properties"},
                        properties |-> <<Prop("foo", "string")>>],
     anything   |-> [has |-> {}],
     loop       |-> [has |-> {"allOf"}, allOf |-> <<"loop">>],
     anyLoop    |-> [has |-> {"anyOf"}, anyOf |-> <<"number", "anyLoop">>],
     oneLoop    |-> [has |-> {"oneOf"}, oneOf |-> <<"oneLoop", "string">>],
     notLoop    |-> [has |-> {"not"}, not |-> "notLoop"],
     tree       |-> [type |-> "object", has |-> {"type", "properties"},
                        properties |-> <<Prop("label", "string"), Prop("child", "tree")>>],
     nest       |-> ArrayOf("nest"),
     baseD      |-> [type |-> "object", has |-> {"type", "properties", "discriminator"},
                        properties |-> <<Prop("kind", "string")>>,
                        discriminator |-> "kind"],
     baseE      |-> [type |-> "object", has |-> {"type", "properties", "discriminator"},
                        properties |-> <<Prop("kind", "string")>>,
                        discriminator |-> "kind"],
     Duo        |-> [has |-> {"allOf"}, allOf |-> <<"baseD", "baseE">>],
     Self       |-> [type |-> "object", has |-> {"type", "properties", "discriminator"},
                        properties |-> <<Prop("kind", "string")>>,
                        discriminator |-> "kind"],
     count      |-> [type |-> "integer", has |-> {"type", "default"},
                        default |-> Str("5")],
     size       |-> [type |-> "integer", has |-> {"type", "x-variable"},
                        xVariable |-> "size"],
     greeting   |-> [type |-> "string", has |-> {"type", "x-template"},
                        xTemplate |-> "Hi {name}"],
     wings      |-> [type |-> "integer", has |-> {"type", "default"},
                        default |-> Num(2)],
     legs       |-> [type |-> "integer", has |-> {"type", "default"},
                        default |-> Num(2)],
     person     |-> [type |-> "object", has |-> {"type", "properties", "required"},
                        properties |-> <<Prop("name", "greeting"), Prop("age", "count"),
                                         Prop("size", "size")>>,
                        required |-> <<"name">>],
     people     |-> ArrayOf("person"),
     boxed      |-> [type |-> "object", has |-> {"type", "default"}, default |-> Ref(1)],
     boxVar     |-> [type |-> "object", has |-> {"type", "x-variable"}, xVariable |-> "box"],
     crate      |-> [type |-> "object", has |-> {"type", "properties"},
                        properties |-> <<Prop("box", "boxed"), Prop("lid", "boxVar")>>],
     crates     |-> ArrayOf("crate"),
     crowd      |-> [type |-> "object", has |-> {"type", "additionalProperties"},
                        additionalProperties |-> "person"],
     winged     |-> [type |-> "object", has |-> {"type", "properties"},
                        properties |-> <<Prop("wings", "wings")>>],
     legged     |-> [type |-> "object", has |-> {"type", "properties"},
                        properties |-> <<Prop("legs", "legs")>>],
     both       |-> [has |-> {"allOf"}, allOf |-> <<"winged", "legged">>],
     wings4     |-> [type |-> "integer", has |-> {"type", "default"},
                        default |-> Num(4)],
     wingedMore |-> [type |-> "object", has |-> {"type", "properties"},
                        properties |-> <<Prop("wings", "wings4")>>],
     flock      |-> [has |-> {"allOf"}, allOf |-> <<"winged", "wingedMore">>],
     Bird       |-> [has |-> {"allOf"}, allOf |-> <<"animal", "winged">>],
     grid       |-> ArrayOf("numbers"),
     holder     |-> [type |-> "object", has |-> {"type", "properties"},
                        properties |-> <<Prop("list", "numbers"), Prop("info", "open"),
                                         Prop("rows", "grid")>>],
     merged     |-> [has |-> {"allOf"}, allOf |-> <<"needsFoo", "fooString">>],
     mixed      |-> [type |-> "boolean", has |-> {"type", "anyOf", "allOf", "not"},
                        anyOf |-> <<"number", "string">>,
                        allOf |-> <<"short", "atLeast1">>, not |-> "number"],
     animal     |-> [type |-> "object", has |-> {"type", "properties", "discriminator", "maxProperties"},
                        properties |-> <<Prop("kind", "string")>>,
                        discriminator |-> "kind", maxProperties |-> 2],
     Cat        |-> [has |-> {"allOf"}, allOf |-> <<"animal", "needsFoo">>]]

\* a node with the keywords it does not carry at their empty values
Schema(name) == Schemas[name] @@ Base

Has(schema, keyword) == keyword \in Schema(schema).has

\* the shared definitions map the discriminator looks subtypes up in
Definitions == {"Cat", "Bird", "Duo", "Self"}

\* util.schemaType: the declared type, else the type the node's keywords imply
schemaType(schema) ==
    CASE Has(schema, "type") -> Schema(schema).type
      [] Has(schema, "items") -> "array"
      [] Has(schema, "properties") \/ Has(schema, "additionalProperties")
            \/ Has(schema, "required") \/ Has(schema, "allOf")
            \/ Has(schema, "discriminator") -> "object"
      [] OTHER -> "undefined"

DeclaredKeys(schema) ==
    {Schema(schema).properties[i].k : i \in SeqIndices(Schema(schema).properties)}

\* schema.properties[key]
PropertySchema(schema, key) ==
    LET ps == Schema(schema).properties
    IN ps[CHOOSE i \in SeqIndices(ps) : ps[i].k = key].v

\* new RegExp(schema.pattern).test(value), for the patterns of the arena
RegExpTest(pattern, string) ==
    CASE pattern = "^[abc]$" -> string \in {"a", "b", "c"}
      [] OTHER -> TRUE

-----------------------------------------------------------------------------
(* The validation context v: the rule configuration v.options, the error   *)
(* sequence v.errors, and `raised` once an exception is on its way out of   *)
(* the call (no later statement runs).                                      *)

\* a prefix is a run of indent spaces followed by a slash-delimited path
RootPrefix == [indent |-> 0, path |-> <<>>]

\* prefix + '/' + key
Sub(prefix, key) == [prefix EXCEPT !.path = Append(@, key)]

\* prefix + '  ', for a prefix made of spaces only
Indent(prefix) == [prefix EXCEPT !.indent = @ + 2]

nestedPrefix(prefix) == [indent |-> prefix.indent + 2, path |-> <<>>]

\* v.error(prefix, message): one more record at the end of v.errors
error(v, prefix, message) ==
    IF v.raised THEN v
    ELSE [v EXCEPT !.errors = Append(@, [prefix |-> prefix, message |-> message])]

\* an exception leaves the function: a TypeError of the runtime
throw(v) == [v EXCEPT !.raised = TRUE]

Context(options, errs) == [options |-> options, errors |-> errs, raised |-> FALSE]

\* value > bound, value >= bound, ... for two numbers
Above(value, bound) == value.v > bound.v \/ (value.v = bound.v /\ value.frac /\ ~bound.frac)
AtOrAbove(value, bound) == Above(value, bound) \/ value = bound
Below(value, bound) == value.v < bound.v \/ (value.v = bound.v /\ ~value.frac /\ bound.frac)
AtOrBelow(value, bound) == Below(value, bound) \/ value = bound

enumFound(schema, value) ==
    \E i \in SeqIndices(Schema(schema).enum) : same(value, Schema(schema).enum[i])

_enum(v, prefix, schema, value) ==
    IF v.options.enum /\ Has(schema, "enum") /\ ~enumFound(schema, value)
    THEN error(v, prefix, [code |-> "enum", received |-> value])
    ELSE v

\* maxMinUpper with value >= maximum where the code has value > maximum
maxMinUpperInclusive(v, prefix, schema, maxProperty, exclusives, value, maximum) ==
    IF v.options[maxProperty] /\ Has(schema, maxProperty)
    THEN IF AtOrAbove(value, maximum)
         THEN error(v, prefix, [code |-> maxProperty, exclusive |-> exclusives])
         ELSE v
    ELSE v

\* the first if of maxMin: the upper bound
maxMinUpper(v, prefix, schema, maxProperty, exclusives, value, maximum) ==
    IF v.options[maxProperty] /\ Has(schema, maxProperty)
    THEN IF exclusives /\ Schema(schema).exclusiveMaximum /\ AtOrAbove(value, maximum)
         THEN error(v, prefix, [code |-> maxProperty, exclusive |-> TRUE])
         ELSE IF Above(value, maximum)
              THEN error(v, prefix, [code |-> maxProperty, exclusive |-> FALSE])
              ELSE v
    ELSE v

\* maxMinLower with value <= minimum where the code has value < minimum
maxMinLowerInclusive(v, prefix, schema, minProperty, exclusives, value, minimum) ==
    IF v.options[minProperty] /\ Has(schema, minProperty)
    THEN IF AtOrBelow(value, minimum)
         THEN error(v, prefix, [code |-> minProperty, exclusive |-> exclusives])
         ELSE v
    ELSE v

\* the second if of maxMin: the lower bound
maxMinLower(v, prefix, schema, minProperty, exclusives, value, minimum) ==
    IF v.options[minProperty] /\ Has(schema, minProperty)
    THEN IF exclusives /\ Schema(schema).exclusiveMinimum /\ AtOrBelow(value, minimum)
         THEN error(v, prefix, [code |-> minProperty, exclusive |-> TRUE])
         ELSE IF Below(value, minimum)
              THEN error(v, prefix, [code |-> minProperty, exclusive |-> FALSE])
              ELSE v
    ELSE v

maxMin(v, prefix, schema, maxProperty, minProperty, exclusives, value, maximum, minimum) ==
    maxMinLower(maxMinUpper(v, prefix, schema, maxProperty, exclusives, value, maximum),
                prefix, schema, minProperty, exclusives, value, minimum)

\* schema.multipleOf && value % schema.multipleOf !== 0
multipleOf(v, prefix, schema, value) ==
    IF Schema(schema).multipleOf # 0
        /\ (value.frac \/ value.v % Schema(schema).multipleOf # 0)
    THEN error(v, prefix, [code |-> "multipleOf", received |-> value])
    ELSE v

numerical(v, prefix, schema, value) ==
    _enum(multipleOf(maxMin(v, prefix, schema, "maximum", "minimum", TRUE, value,
                            Num(Schema(schema).maximum), Num(Schema(schema).minimum)),
                     prefix, schema, value),
          prefix, schema, value)

validate_boolean(v, prefix, schema, value) ==
    IF ~v.options.boolean THEN v
    ELSE IF Typeof(value) # "boolean"
         THEN error(v, prefix, [code |-> "type", expected |-> "boolean"])
         ELSE _enum(v, prefix, schema, value)

validate_integer(v, prefix, schema, value) ==
    IF ~v.options.integer THEN v
    ELSE IF Typeof(value) # "number" \/ value.frac
         THEN error(v, prefix, [code |-> "type", expected |-> "integer"])
         ELSE numerical(v, prefix, schema, value)

validate_number(v, prefix, schema, value) ==
    IF ~v.options.number THEN v
    ELSE IF Typeof(value) # "number"
         THEN error(v, prefix, [code |-> "type", expected |-> "number"])
         ELSE numerical(v, prefix, schema, value)

stringMaxLength(v, prefix, schema, value) ==
    IF v.options.maxLength /\ Has(schema, "maxLength")
        /\ Len(value.v) > Schema(schema).maxLength
    THEN error(v, prefix, [code |-> "maxLength", length |-> Len(value.v)])
    ELSE v

stringMinLength(v, prefix, schema, value) ==
    IF v.options.minLength /\ Has(schema, "minLength")
        /\ Len(value.v) < Schema(schema).minLength
    THEN error(v, prefix, [code |-> "minLength", length |-> Len(value.v)])
    ELSE v

stringPattern(v, prefix, schema, value) ==
    IF v.options.pattern /\ Has(schema, "pattern")
        /\ ~RegExpTest(Schema(schema).pattern, value.v)
    THEN error(v, prefix, [code |-> "pattern", received |-> value])
    ELSE v

validate_string(v, prefix, schema, value) ==
    IF ~v.options.string THEN v
    \* const length = value.length: reading a property of null or undefined throws
    ELSE IF value.t \in {"null", "undefined", "hole"} THEN throw(v)
    ELSE IF Typeof(value) # "string"
         THEN error(v, prefix, [code |-> "type", expected |-> "string"])
         ELSE _enum(stringPattern(stringMinLength(stringMaxLength(v, prefix, schema, value),
                                                  prefix, schema, value),
                                  prefix, schema, value),
                    prefix, schema, value)

\* is.binary, is.byte, is.date, is.dateTime on the strings of the model:
\* groups of eight binary digits, base64, a full-date, a date-time
is_binary(s) == s \in {"00000000"}
is_byte(s) == s \in {"YWI="}
is_date(s) == s \in {"2000-01-01", "2001-02-29"}
is_dateTime(s) == s \in {"2000-01-01T00:00:00Z", "2000-01-01T24:00:00Z"}

\* date(descriptor, v, prefix, schema, value): the time of day is within
\* bounds, the calendar date exists; the nodes of the model with a date
\* format carry no maximum and no minimum, so that maxMin adds nothing
date(v, prefix, schema, value) ==
    maxMin(IF v.options.dateExists /\ value.v = "2001-02-29"
           THEN error(IF v.options.timeExists /\ value.v = "2000-01-01T24:00:00Z"
                      THEN error(v, prefix, [code |-> "timeExists"]) ELSE v,
                      prefix, [code |-> "dateExists"])
           ELSE IF v.options.timeExists /\ value.v = "2000-01-01T24:00:00Z"
                THEN error(v, prefix, [code |-> "timeExists"]) ELSE v,
           prefix, schema, "maximum", "minimum", FALSE, Num(0), Num(0), Num(0))

validate_binary(v, prefix, schema, value) ==
    IF ~v.options.binary THEN v
    ELSE IF Typeof(value) # "string"
         THEN error(v, prefix, [code |-> "type", expected |-> "string"])
         ELSE validate_string(IF ~is_binary(value.v)
                              THEN error(v, prefix, [code |-> "binary"]) ELSE v,
                              prefix, schema, value)

validate_byte(v, prefix, schema, value) ==
    IF ~v.options.byte THEN v
    ELSE IF Typeof(value) # "string"
         THEN error(v, prefix, [code |-> "type", expected |-> "string"])
         ELSE validate_string(IF ~is_byte(value.v)
                              THEN error(v, prefix, [code |-> "byte"]) ELSE v,
                              prefix, schema, value)

\* one message for a value that is no string and for a string that is no full-date
validate_date(v, prefix, schema, value) ==
    IF ~v.options.date THEN v
    ELSE IF Typeof(value) # "string" \/ ~is_date(value.v)
         THEN error(v, prefix, [code |-> "type", expected |-> "date"])
         ELSE validate_string(date(v, prefix, schema, value), prefix, schema, value)

validate_dateTime(v, prefix, schema, value) ==
    IF ~v.options.dateTime THEN v
    ELSE IF Typeof(value) # "string" \/ ~is_dateTime(value.v)
         THEN error(v, prefix, [code |-> "type", expected |-> "date-time"])
         ELSE validate_string(date(v, prefix, schema, value), prefix, schema, value)

RECURSIVE uniqueItems(_, _, _, _, _)

\* uniqueItems with the scan stopping one element short of the end
uniqueItemsButLast(v, prefix, value, n, singles) ==
    IF n >= Len(value.v) THEN v
    ELSE IF value.v[n].t = "hole"
         THEN uniqueItems(v, prefix, value, n + 1, singles)
         ELSE IF \E i \in SeqIndices(singles) : same(value.v[n], singles[i])
              THEN uniqueItems(error(v, prefix, [code |-> "uniqueItems", index |-> n - 1,
                                                 item |-> value.v[n]]),
                               prefix, value, n + 1, singles)
              ELSE uniqueItems(v, prefix, value, n + 1, Append(singles, value.v[n]))

\* the uniqueItems scan of validate.array from the element at position n on:
\* one error per element that is the same as an element kept before it
uniqueItems(v, prefix, value, n, singles) ==
    IF n > Len(value.v) THEN v
    ELSE IF value.v[n].t = "hole"
         THEN uniqueItems(v, prefix, value, n + 1, singles)
         ELSE IF \E i \in SeqIndices(singles) : same(value.v[n], singles[i])
              THEN uniqueItems(error(v, prefix, [code |-> "uniqueItems", index |-> n - 1,
                                                 item |-> value.v[n]]),
                               prefix, value, n + 1, singles)
              ELSE uniqueItems(v, prefix, value, n + 1, Append(singles, value.v[n]))

\* v.version.getDiscriminatorKey(schema, value): the subtype the value names
getDiscriminatorKey(schema, value) == PropValue(value, Schema(schema).discriminator)

\* v.version.getDiscriminatorSchema(schema, value): that subtype's definition, "" if none
getDiscriminatorSchema(schema, value) ==
    IF getDiscriminatorKey(schema, value).t = "string"
        /\ getDiscriminatorKey(schema, value).v \in Definitions
    THEN getDiscriminatorKey(schema, value).v
    ELSE ""

RemoveFirst(list, x) ==
    IF \E i \in SeqIndices(list) : list[i] = x
    THEN SubSeq(list, 1, (CHOOSE i \in SeqIndices(list) :
                              list[i] = x /\ \A j \in 1..(i - 1) : list[j] # x) - 1)
         \o SubSeq(list, (CHOOSE i \in SeqIndices(list) :
                              list[i] = x /\ \A j \in 1..(i - 1) : list[j] # x) + 1,
                   Len(list))
    ELSE list

RECURSIVE discriminate(_, _, _, _, _, _)
RECURSIVE discriminateEach(_, _, _, _)

\* discriminate leaving the base schema out when its subtype is undefined
discriminateWithoutBase(v, map, allOf, prefix, schema, value) ==
    IF schema \in map
    THEN [v |-> v, map |-> map, allOf |-> allOf]
    ELSE IF v.options.allOf /\ Has(schema, "allOf")
         THEN discriminateEach([v |-> v, map |-> map \cup {schema}, allOf |-> allOf],
                               prefix, Schema(schema).allOf, value)
         ELSE IF v.options.discriminator /\ Has(schema, "discriminator")
              THEN IF getDiscriminatorSchema(schema, value) # ""
                   THEN discriminate(v, map \cup {schema}, Append(allOf, schema), prefix,
                                     getDiscriminatorSchema(schema, value), value)
                   ELSE [v |-> error(v, prefix,
                                     [code |-> "discriminator",
                                      key |-> getDiscriminatorKey(schema, value)]),
                         map |-> map \cup {schema}, allOf |-> allOf]
              ELSE [v |-> v, map |-> map \cup {schema}, allOf |-> Append(allOf, schema)]

\* the effective schemas of an object validation: r.allOf; r.v carries the
\* error the resolution may add, r.map the nodes visited
discriminate(v, map, allOf, prefix, schema, value) ==
    IF schema \in map
    THEN [v |-> v, map |-> map, allOf |-> allOf]
    ELSE IF v.options.allOf /\ Has(schema, "allOf")
         THEN discriminateEach([v |-> v, map |-> map \cup {schema}, allOf |-> allOf],
                               prefix, Schema(schema).allOf, value)
         ELSE IF v.options.discriminator /\ Has(schema, "discriminator")
              THEN IF getDiscriminatorSchema(schema, value) # ""
                   THEN discriminate(v, map \cup {schema}, Append(allOf, schema), prefix,
                                     getDiscriminatorSchema(schema, value), value)
                   ELSE [v |-> error(v, prefix,
                                     [code |-> "discriminator",
                                      key |-> getDiscriminatorKey(schema, value)]),
                         map |-> map \cup {schema}, allOf |-> Append(allOf, schema)]
              ELSE [v |-> v, map |-> map \cup {schema}, allOf |-> Append(allOf, schema)]

\* schema.allOf.forEach(schema => discriminate(v, map, allOf, prefix, schema, value))
discriminateEach(r, prefix, schemas, value) ==
    IF schemas = <<>> THEN r
    ELSE discriminateEach(discriminate(r.v, r.map, r.allOf, prefix, Head(schemas), value),
                          prefix, Tail(schemas), value)

RECURSIVE validate(_, _, _, _, _)
RECURSIVE anyOfEach(_, _, _, _, _, _, _)
RECURSIVE allOfEach(_, _, _, _, _)
RECURSIVE itemsEach(_, _, _, _, _, _)
RECURSIVE keysEach(_, _, _, _, _, _)
RECURSIVE schemasEach(_, _, _, _, _)

\* one round of anyOf's loop, once branch i has been validated into b
anyOfTally(result, b, prefix, i) ==
    IF b.raised
    THEN [result EXCEPT !.v = b]
    ELSE IF Len(b.errors) = 0
         THEN [result EXCEPT !.valid = @ + 1,
                  !.messages = Append(@, [prefix |-> prefix, schema |-> i, valid |-> TRUE])]
         ELSE [result EXCEPT
                  !.messages = Append(@, [prefix |-> prefix, schema |-> i,
                                          valid |-> FALSE, errors |-> b.errors]),
                  !.errors = Append(@, [prefix |-> prefix, schema |-> i,
                                        valid |-> FALSE, errors |-> b.errors])]

\* anyOf's loop from branch i on: each branch is validated into a fresh v.errors
anyOfEach(result, v, prefix, depth, schemas, value, i) ==
    IF i > Len(schemas) \/ result.v.raised THEN result
    ELSE anyOfEach(anyOfTally(result,
                              validate([v EXCEPT !.errors = <<>>], Indent(prefix), depth,
                                       schemas[i], value),
                              prefix, i),
                   v, prefix, depth, schemas, value, i + 1)

\* r.v is the context as the call leaves it: v.errors restored, unless it threw
anyOf(v, prefix, depth, schemas, value) ==
    anyOfEach([v |-> v, errors |-> <<>>, messages |-> <<>>, valid |-> 0],
              v, prefix, depth, schemas, value, 1)

\* if (!result.valid) v.error(prefix, 'Did not match any of the schemas ...')
anyOfReport(v, prefix, result) ==
    IF result.v.raised THEN result.v
    ELSE IF result.valid = 0
         THEN error(v, prefix, [code |-> "anyOf", errors |-> result.errors])
         ELSE v

\* if (result.valid !== 1) v.error.push(...): v.error is a function, it has no push
oneOfReport(v, prefix, result) ==
    IF result.v.raised THEN result.v
    ELSE IF result.valid # 1 THEN throw(v)
         ELSE v

\* notReport without v.errors = errors: the inner error sequence is kept
notReportUnrestored(v, prefix, inner) ==
    IF inner.raised THEN inner
    ELSE IF Len(inner.errors) = 0
         THEN error(inner, prefix, [code |-> "not"])
         ELSE inner

\* the end of not(), once the schema has been validated into inner
notReport(v, prefix, inner) ==
    IF inner.raised THEN inner
    ELSE IF Len(inner.errors) = 0
         THEN error(v, prefix, [code |-> "not"])
         ELSE v

not(v, prefix, depth, schema, value) ==
    notReport(v, prefix,
              validate([v EXCEPT !.errors = <<>>], prefix, depth, schema, value))

\* schema.allOf.forEach(schema => validate(v, prefix, depth, schema, value))
allOfEach(v, prefix, depth, schemas, value) ==
    IF schemas = <<>> THEN v
    ELSE allOfEach(validate(v, prefix, depth, Head(schemas), value),
                   prefix, depth, Tail(schemas), value)

\* arrayMaxItems with schema.maxItems <= length where the code has <
arrayMaxItemsInclusive(v, prefix, schema, value) ==
    IF v.options.maxItems /\ Has(schema, "maxItems")
        /\ Schema(schema).maxItems <= Len(value.v)
    THEN error(v, prefix, [code |-> "maxItems", length |-> Len(value.v)])
    ELSE v

arrayMaxItems(v, prefix, schema, value) ==
    IF v.options.maxItems /\ Has(schema, "maxItems")
        /\ Schema(schema).maxItems < Len(value.v)
    THEN error(v, prefix, [code |-> "maxItems", length |-> Len(value.v)])
    ELSE v

arrayMinItems(v, prefix, schema, value) ==
    IF v.options.minItems /\ Has(schema, "minItems")
        /\ Schema(schema).minItems > Len(value.v)
    THEN error(v, prefix, [code |-> "minItems", length |-> Len(value.v)])
    ELSE v

arrayUniqueItems(v, prefix, schema, value) ==
    IF v.options.uniqueItems /\ Schema(schema).uniqueItems
    THEN uniqueItems(v, prefix, value, 1, <<>>)
    ELSE v

\* value.forEach((val, index) => validate(v, prefix + '/' + index, depth1, schema.items, val))
itemsEach(v, prefix, depth1, schema, value, n) ==
    IF n > Len(value.v) THEN v
    ELSE IF value.v[n].t = "hole"
         THEN itemsEach(v, prefix, depth1, schema, value, n + 1)
         ELSE itemsEach(validate(v, Sub(prefix, IndexKey[n]), depth1,
                                 Schema(schema).items, value.v[n]),
                        prefix, depth1, schema, value, n + 1)

\* arrayItems with the depth test the wrong way round
arrayItemsDepthInverted(v, prefix, depth, schema, value) ==
    IF v.options.items /\ Has(schema, "items") /\ v.options.depth < depth
    THEN itemsEach(v, prefix, depth + 1, schema, value, 1)
    ELSE v

arrayItems(v, prefix, depth, schema, value) ==
    IF v.options.items /\ Has(schema, "items") /\ v.options.depth > depth
    THEN itemsEach(v, prefix, depth + 1, schema, value, 1)
    ELSE v

validate_array(v, prefix, depth, schema, value) ==
    IF ~v.options.array THEN v
    ELSE IF ~IsArray(value)
         THEN error(v, prefix, [code |-> "type", expected |-> "array"])
         ELSE _enum(arrayItems(arrayUniqueItems(arrayMinItems(arrayMaxItems(
                        v, prefix, schema, value), prefix, schema, value),
                        prefix, schema, value), prefix, depth, schema, value),
                    prefix, schema, value)

\* the property of one key: its declared schema, else additionalProperties
objectKey(v, prefix, depth, schema, value, key) ==
    IF v.options.depth > depth
    THEN IF key \in DeclaredKeys(schema)
         THEN IF v.options.properties
              THEN validate(v, Sub(prefix, key), depth + 1,
                            PropertySchema(schema, key), PropValue(value, key))
              ELSE v
         ELSE IF v.options.additionalProperties
              THEN IF Schema(schema).additionalProperties = "false"
                   THEN error(v, Sub(prefix, key), [code |-> "additionalProperties"])
                   ELSE IF Schema(schema).additionalProperties # ""
                        THEN validate(v, Sub(prefix, key), depth + 1,
                                      Schema(schema).additionalProperties,
                                      PropValue(value, key))
                        ELSE v
              ELSE v
    ELSE v

\* keysEach taking a key off the required list only when the schema itself
\* declares the property
keysEachDeclared(acc, prefix, depth, schema, value, keys) ==
    IF keys = <<>> THEN acc
    ELSE keysEach([v |-> objectKey(acc.v, prefix, depth, schema, value, Head(keys)),
                   required |-> IF Head(keys) \in DeclaredKeys(schema)
                                THEN RemoveFirst(acc.required, Head(keys))
                                ELSE acc.required],
                  prefix, depth, schema, value, Tail(keys))

\* keys.forEach(key => ...): acc.required is what is left of the required list
keysEach(acc, prefix, depth, schema, value, keys) ==
    IF keys = <<>> THEN acc
    ELSE keysEach([v |-> objectKey(acc.v, prefix, depth, schema, value, Head(keys)),
                   required |-> RemoveFirst(acc.required, Head(keys))],
                  prefix, depth, schema, value, Tail(keys))

\* objectRequired with required.length > 1 where the code has > 0
objectRequiredOffByOne(acc, prefix) ==
    IF acc.v.options.required /\ Len(acc.required) > 1
    THEN error(acc.v, prefix, [code |-> "required", missing |-> acc.required])
    ELSE acc.v

\* validate that all required are present
objectRequired(acc, prefix) ==
    IF acc.v.options.required /\ Len(acc.required) > 0
    THEN error(acc.v, prefix, [code |-> "required", missing |-> acc.required])
    ELSE acc.v

\* const required = ...; keys.forEach(...): every own key validated, the
\* required names that are missing left in acc.required
objectKeys(v, prefix, depth, schema, value) ==
    keysEach([v |-> v,
              required |-> IF v.options.required /\ Has(schema, "required")
                           THEN Schema(schema).required ELSE <<>>],
             prefix, depth, schema, value, ObjectKeys(value))

\* the body validate.object runs for one effective schema
objectEach(v, prefix, depth, schema, value) ==
    _enum(maxMin(objectRequired(objectKeys(v, prefix, depth, schema, value), prefix),
                 prefix, schema, "maxProperties", "minProperties", FALSE,
                 Num(Len(ObjectKeys(value))),
                 Num(Schema(schema).maxProperties), Num(Schema(schema).minProperties)),
          prefix, schema, value)

\* discriminate(...).forEach(schema => ...)
schemasEach(v, prefix, depth, schemas, value) ==
    IF schemas = <<>> THEN v
    ELSE schemasEach(objectEach(v, prefix, depth, Head(schemas), value),
                     prefix, depth, Tail(schemas), value)

\* the effective schemas resolved into d, then validated one after the other
objectResolved(d, prefix, depth, value) ==
    schemasEach(d.v, prefix, depth, d.allOf, value)

validate_object(v, prefix, depth, schema, value) ==
    IF ~v.options.object THEN v
    ELSE IF ~Truthy(value) \/ Typeof(value) # "object"
         THEN error(v, prefix, [code |-> "type", expected |-> "object"])
         ELSE objectResolved(discriminate(v, {}, <<>>, prefix, schema, value),
                             prefix, depth, value)

\* the switch on util.schemaType(schema) and schema.format
validateType(type, v, prefix, depth, schema, value) ==
    CASE type = "array" -> validate_array(v, prefix, depth, schema, value)
      [] type = "boolean" -> validate_boolean(v, prefix, schema, value)
      [] type = "integer" -> validate_integer(v, prefix, schema, value)
      [] type = "number" -> validate_number(v, prefix, schema, value)
      [] type = "object" -> validate_object(v, prefix, depth, schema, value)
      [] type = "string" /\ Schema(schema).format = "binary" ->
            validate_binary(v, prefix, schema, value)
      [] type = "string" /\ Schema(schema).format = "byte" ->
            validate_byte(v, prefix, schema, value)
      [] type = "string" /\ Schema(schema).format = "date" ->
            validate_date(v, prefix, schema, value)
      [] type = "string" /\ Schema(schema).format = "date-time" ->
            validate_dateTime(v, prefix, schema, value)
      [] type = "string" /\ Schema(schema).format = "" ->
            validate_string(v, prefix, schema, value)
      \* any other format, any other type: no case of the switch
      [] OTHER -> v

\* validate with allOf looked at before anyOf and oneOf
validateAllOfFirst(v, prefix, depth, schema, value) ==
    IF v.raised THEN v
    ELSE IF v.options.allOf /\ Has(schema, "allOf")
    THEN allOfEach(v, prefix, depth, Schema(schema).allOf, value)
    ELSE IF v.options.anyOf /\ Has(schema, "anyOf")
    THEN anyOfReport(v, prefix,
                     anyOf(v, nestedPrefix(prefix), depth, Schema(schema).anyOf, value))
    ELSE IF v.options.oneOf /\ Has(schema, "oneOf")
    THEN oneOfReport(v, prefix,
                     anyOf(v, nestedPrefix(prefix), depth, Schema(schema).oneOf, value))
    ELSE IF v.options.not /\ Has(schema, "not")
    THEN not(v, prefix, depth, Schema(schema).not, value)
    ELSE validateType(schemaType(schema), v, prefix, depth, schema, value)

validate(v, prefix, depth, schema, value) ==
    IF v.raised THEN v
    ELSE IF v.options.anyOf /\ Has(schema, "anyOf")
    THEN anyOfReport(v, prefix,
                     anyOf(v, nestedPrefix(prefix), depth, Schema(schema).anyOf, value))
    ELSE IF v.options.oneOf /\ Has(schema, "oneOf")
    THEN oneOfReport(v, prefix,
                     anyOf(v, nestedPrefix(prefix), depth, Schema(schema).oneOf, value))
    ELSE IF v.options.allOf /\ Has(schema, "allOf")
    THEN allOfEach(v, prefix, depth, Schema(schema).allOf, value)
    ELSE IF v.options.not /\ Has(schema, "not")
    THEN not(v, prefix, depth, Schema(schema).not, value)
    ELSE validateType(schemaType(schema), v, prefix, depth, schema, value)

-----------------------------------------------------------------------------
(* Rule configurations *)

MaxDepth == 2        \* v.options.depth, the deepest level whose children are validated

\* every rule of the Validator enabled
AllRules ==
    [anyOf |-> TRUE, oneOf |-> TRUE, allOf |-> TRUE, not |-> TRUE,
     boolean |-> TRUE, integer |-> TRUE, number |-> TRUE, string |-> TRUE,
     array |-> TRUE, object |-> TRUE, items |-> TRUE, properties |-> TRUE,
     multipleOf |-> TRUE, maximum |-> TRUE, minimum |-> TRUE,
     maxLength |-> TRUE, minLength |-> TRUE, pattern |-> TRUE,
     maxItems |-> TRUE, minItems |-> TRUE, uniqueItems |-> TRUE,
     additionalProperties |-> TRUE, discriminator |-> TRUE,
     maxProperties |-> TRUE, minProperties |-> TRUE, required |-> TRUE,
     binary |-> TRUE, byte |-> TRUE, date |-> TRUE, dateTime |-> TRUE,
     dateExists |-> TRUE, timeExists |-> TRUE,
     enum |-> TRUE, depth |-> MaxDepth]

Without(options, rules) ==
    [r \in DOMAIN options |-> IF r \in rules THEN FALSE ELSE options[r]]

\* the configurations validate() is called under
OptionSets ==
    {AllRules,
     Without(AllRules, {"anyOf"}),
     Without(AllRules, {"oneOf", "maximum"}),
     Without(AllRules, {"string", "required", "uniqueItems"}),
     Without(AllRules, {"anyOf", "allOf"}),
     Without(AllRules, {"anyOf", "allOf", "not"}),
     [AllRules EXCEPT !.depth = 1]}

-----------------------------------------------------------------------------
(* The Validator: a caller validates values against schema nodes with one  *)
(* validation context, whose error sequence accumulates from call to call.  *)

MaxErrors == 2       \* a caller goes on to another call while v.errors is no longer

ValidatedSchemas ==
    {"number", "integer", "string", "boolean", "short", "below2",
     "atLeast1", "above1", "most1", "even", "oneOrTwo",
     "anyNumStr", "anyBounds", "oneNumStr", "oneNumInt", "anyNested", "allBounds",
     "notNumber", "unique", "strings", "record", "closed", "merged", "animal", "mixed",
     "paired", "bits", "bytes", "dated", "stamped", "emailed", "stricts", "rows"}

Values ==
    {Undefined, Null, Num(1), Num(2), Half(1), Str("a"), Str("ab"), Bool(TRUE),
     Arr(<<>>), Arr(<<Num(1), Num(1)>>), Arr(<<Str("a"), Num(2)>>),
     Obj(<<>>), Obj(<<Prop("foo", Num(1))>>),
     Obj(<<Prop("foo", Str("a")), Prop("bar", Null)>>),
     Obj(<<Prop("kind", Str("Cat")), Prop("foo", Num(1))>>),
     Obj(<<Prop("kind", Str("Dog"))>>),
     Obj(<<Prop("kind", Str("Dog")), Prop("foo", Num(1)), Prop("bar", Null)>>),
     Obj(<<Prop("bar", Str("a"))>>), Obj(<<Prop("kind", Str("Cat"))>>),
     Str("2000-01-01"),
     Arr(<<Obj(<<Prop("foo", Str("a")), Prop("bar", Null)>>)>>),
     Arr(<<Arr(<<Str("a"), Str("a")>>)>>)}

Calls ==
    [schema : ValidatedSchemas, value : Values, options : OptionSets, before : {<<>>}]

\* what the caller validates next with the same context
FollowUpSchemas == {"anyNumStr", "anyBounds", "oneNumStr", "notNumber", "allBounds", "record"}
FollowUpValues == {Null, Num(1), Num(2), Str("a"), Bool(TRUE), Obj(<<>>)}

NotWrapped == [state |-> "none"]
NoAttempt == [op |-> "none"]
NoDerived == [state |-> "none"]
NotMade == [state |-> "none"]
NoFrame == [fn |-> "none"]
NotHandled == [state |-> "none"]

InitValidator ==
    /\ call \in Calls
    /\ errors = <<>>
    /\ raised = FALSE
    /\ done = FALSE
    /\ enforced = NotWrapped
    /\ attempt = NoAttempt
    /\ derived = NoDerived
    /\ made = NotMade
    /\ frame = NoFrame
    /\ handled = NotHandled

\* validate(v, '', 0, schema, value) runs to its end, or throws
Validate ==
    /\ ~done
    /\ LET v == validate(Context(call.options, call.before), RootPrefix, 0,
                         call.schema, call.value)
       IN /\ errors' = v.errors
          /\ raised' = v.raised
    /\ done' = TRUE
    /\ UNCHANGED <<call, enforced, attempt, derived, made, frame, handled>>

\* the caller keeps the context and validates another value with it
NextCall ==
    /\ done
    /\ ~raised
    /\ call.before = <<>>
    /\ Len(errors) \in 1..MaxErrors
    /\ \E schema \in FollowUpSchemas, value \in FollowUpValues :
          call' = [schema |-> schema, value |-> value, options |-> call.options,
                   before |-> errors]
    /\ done' = FALSE
    /\ UNCHANGED <<errors, raised, enforced, attempt, derived, made, frame, handled>>

NextValidator == Validate \/ NextCall

SpecValidator == InitValidator /\ [][NextValidator]_vars

-----------------------------------------------------------------------------
(* The Enforcer.  wrap validates the initial value with the Validator under *)
(* the enforce.* rule set; every later mutation computes the value the      *)
(* operation would leave (the candidate), checks it with the Validator's    *)
(* rules, and commits the candidate only when no rule is violated.          *)

\* defaults.enforce
EnforceDefaults ==
    [multipleOf |-> TRUE, maximum |-> TRUE, minimum |-> TRUE,
     maxLength |-> TRUE, minLength |-> TRUE, pattern |-> TRUE,
     maxItems |-> TRUE, minItems |-> FALSE, uniqueItems |-> TRUE,
     additionalProperties |-> TRUE, maxProperties |-> TRUE, minProperties |-> FALSE,
     required |-> FALSE, enum |-> TRUE]

\* enforce: { minItems: true, minProperties: true, required: true }
EnforceAll == [r \in DOMAIN EnforceDefaults |-> TRUE]

\* enforce: { maxItems: false, uniqueItems: false, maxProperties: false }
EnforceLoose ==
    [r \in DOMAIN EnforceDefaults |->
        IF r \in {"maxItems", "uniqueItems", "maxProperties"} THEN FALSE
        ELSE EnforceDefaults[r]]

\* the Validator configuration of an enforce.* rule set: the constraint rules
\* follow the rule set, the type and structure checks are on
EnforceRules(enforce) ==
    [r \in DOMAIN AllRules |-> IF r \in DOMAIN enforce THEN enforce[r] ELSE AllRules[r]]

\* a fresh validation context under the enforced rule set
Enforcing(enforce) == Context(EnforceRules(enforce), <<>>)

\* the error kind of a Validator message
Kind(code) ==
    CASE code \in {"maxItems", "minItems", "maxLength", "minLength",
                   "maxProperties", "minProperties"} -> "length-bound violation"
      [] code = "uniqueItems" -> "uniqueness violation"
      [] code = "required" -> "required-property violation"
      [] code = "additionalProperties" -> "unknown-property violation"
      [] code \in {"maximum", "minimum", "multipleOf"} -> "numeric-bound violation"
      [] code = "pattern" -> "pattern violation"
      [] code = "enum" -> "enum violation"
      [] code = "discriminator" -> "discriminator-resolution failure"
      [] OTHER -> "type mismatch"

\* the error a validation context stands for: "" when it holds none
Verdict(v) ==
    IF v.raised THEN "exception"
    ELSE IF Len(v.errors) = 0 THEN ""
         ELSE Kind(v.errors[1].message.code)

\* a value validated against a schema node under the enforced rule set
Check(enforce, schema, value) ==
    Verdict(validate(Enforcing(enforce), RootPrefix, 0, schema, value))

\* the first violation among checks made in order ("" when none)
First(verdicts) ==
    IF \E i \in SeqIndices(verdicts) : verdicts[i] # ""
    THEN verdicts[CHOOSE i \in SeqIndices(verdicts) :
                        verdicts[i] # "" /\ \A j \in 1..(i - 1) : verdicts[j] = ""]
    ELSE ""

Live(schema, enforce, value) ==
    [state |-> "live", schema |-> schema, enforce |-> enforce, value |-> value,
     initial |-> value]

Attempt(op, schema, enforce, key, before, candidate, kind) ==
    [op |-> op, schema |-> schema, enforce |-> enforce, key |-> key,
     before |-> before, candidate |-> candidate,
     outcome |-> IF kind = "" THEN "accepted" ELSE "rejected", kind |-> kind]

IsLive == enforced.state = "live"
IsLiveArray == IsLive /\ enforced.value.t = "array" /\ schemaType(enforced.schema) = "array"
IsLiveObject == IsLive /\ enforced.value.t = "object"

\* the resulting length of an array operation against maxItems / minItems
checkLength(enforce, schema, candidate) ==
    Verdict(arrayMinItems(arrayMaxItems(Enforcing(enforce), RootPrefix, schema, candidate),
                          RootPrefix, schema, candidate))

\* every newly introduced element against the items schema
checkItems(enforce, schema, fresh) ==
    IF Has(schema, "items")
    THEN First([i \in SeqIndices(fresh) |-> Check(enforce, Schema(schema).items, fresh[i])])
    ELSE ""

\* no two elements of the resulting array are the same
checkUnique(enforce, schema, candidate) ==
    Verdict(arrayUniqueItems(Enforcing(enforce), RootPrefix, schema, candidate))

\* the checks an array mutation passes before it is committed
checkArray(enforce, schema, candidate, fresh) ==
    First(<<checkLength(enforce, schema, candidate),
            checkItems(enforce, schema, fresh),
            checkUnique(enforce, schema, candidate)>>)

\* the length a splice is judged on: deleteCount elements taken as removed,
\* however many elements there are from start on
spliceLength(a, deleteCount, xs) == Len(a.v) - deleteCount + Len(xs)

\* splice as remover: rejected when that length is below minItems
checkSpliceLength(enforce, schema, a, deleteCount, xs) ==
    IF enforce.minItems /\ Has(schema, "minItems")
        /\ spliceLength(a, deleteCount, xs) < Schema(schema).minItems
    THEN "length-bound violation"
    ELSE ""

\* the effective schemas of an enforced object: allOf members flattened
effective(enforce, schema, value) ==
    discriminate(Enforcing(enforce), {}, <<>>, RootPrefix, schema, value).allOf

\* a write: the property count the object would have against maxProperties
checkSetCount(enforce, e, candidate) ==
    Verdict(maxMinUpper(Enforcing(enforce), RootPrefix, e, "maxProperties", FALSE,
                        Num(Len(ObjectKeys(candidate))), Num(Schema(e).maxProperties)))

\* a write: the value against the sub-schema of the key (declared property,
\* else additionalProperties, else schemaless passthrough)
checkSetValue(enforce, e, candidate, key) ==
    Verdict(objectKey(Enforcing(enforce), RootPrefix, 0, e, candidate, key))

\* a key the schema does not declare, when the schema declares properties and
\* says nothing of additional ones, is an unknown property
unknownProperty(enforce, e, key) ==
    IF enforce.additionalProperties /\ Has(e, "properties")
        /\ Schema(e).additionalProperties = "" /\ key \notin DeclaredKeys(e)
    THEN "unknown-property violation"
    ELSE ""

\* the keys of an initial value against every effective schema
checkUnknown(enforce, schema, value) ==
    IF value.t = "object"
    THEN First([i \in SeqIndices(effective(enforce, schema, value)) |->
                   First([j \in SeqIndices(ObjectKeys(value)) |->
                            unknownProperty(enforce, effective(enforce, schema, value)[i],
                                            ObjectKeys(value)[j])])])
    ELSE ""

checkSetEach(schemas, enforce, candidate, key) ==
    First([i \in SeqIndices(schemas) |-> checkSetCount(enforce, schemas[i], candidate)]
          \o [i \in SeqIndices(schemas) |-> checkSetValue(enforce, schemas[i], candidate, key)]
          \o [i \in SeqIndices(schemas) |-> unknownProperty(enforce, schemas[i], key)])

\* a write of key: checked against every effective schema
checkSet(enforce, schema, candidate, key) ==
    checkSetEach(effective(enforce, schema, candidate), enforce, candidate, key)

\* a delete: no required name of the schema is missing afterwards
checkDeleteRequired(enforce, e, candidate) ==
    Verdict(objectRequired(objectKeys(Enforcing(enforce), RootPrefix, 0, e, candidate),
                           RootPrefix))

\* a delete: the property count the object would have against minProperties
checkDeleteCount(enforce, e, candidate) ==
    Verdict(maxMinLower(Enforcing(enforce), RootPrefix, e, "minProperties", FALSE,
                        Num(Len(ObjectKeys(candidate))), Num(Schema(e).minProperties)))

checkDeleteEach(schemas, enforce, candidate) ==
    First([i \in SeqIndices(schemas) |-> checkDeleteRequired(enforce, schemas[i], candidate)]
          \o [i \in SeqIndices(schemas) |-> checkDeleteCount(enforce, schemas[i], candidate)])

\* a delete of a key: a required property stays, the count stays at minProperties
checkDelete(enforce, schema, candidate) ==
    checkDeleteEach(effective(enforce, schema, candidate), enforce, candidate)

(* what the array operations leave behind *)

pushed(a, xs) == Arr(a.v \o xs)
unshifted(a, xs) == Arr(xs \o a.v)
popped(a) == IF Len(a.v) = 0 THEN a ELSE Arr(SubSeq(a.v, 1, Len(a.v) - 1))
shifted(a) == IF Len(a.v) = 0 THEN a ELSE Arr(Tail(a.v))

Min(a, b) == IF a < b THEN a ELSE b

\* splice(start, deleteCount, ...xs), 0 <= start <= length
spliced(a, start, deleteCount, xs) ==
    Arr(SubSeq(a.v, 1, start) \o xs
        \o SubSeq(a.v, start + Min(deleteCount, Len(a.v) - start) + 1, Len(a.v)))

\* a[index] = x: slots between the old end and index stay empty
assigned(a, index, x) ==
    Arr([i \in 1..(IF index + 1 > Len(a.v) THEN index + 1 ELSE Len(a.v)) |->
            IF i = index + 1 THEN x
            ELSE IF i <= Len(a.v) THEN a.v[i] ELSE Hole])

\* fill(x, start, end)
filled(a, x, start, end) ==
    Arr([i \in SeqIndices(a.v) |-> IF i > start /\ i <= end THEN x ELSE a.v[i]])

\* copyWithin(target, start): how many elements are copied
copyCount(a, target, start) == Min(Len(a.v) - start, Len(a.v) - target)

\* copyWithin(target, start): the elements from start on, copied to target on
copiedWithin(a, target, start) ==
    Arr([i \in SeqIndices(a.v) |->
           IF i > target /\ i <= target + copyCount(a, target, start)
           THEN a.v[i - target + start]
           ELSE a.v[i]])

(* what the object operations leave behind *)

\* o[key] = x
withProperty(o, key, x) ==
    IF key \in KeySet(o)
    THEN Obj([i \in SeqIndices(o.v) |-> IF o.v[i].k = key THEN Prop(key, x) ELSE o.v[i]])
    ELSE Obj(Append(o.v, Prop(key, x)))

\* delete o[key]
withoutProperty(o, key) == Obj(SelectSeq(o.v, LAMBDA p : p.k # key))

-----------------------------------------------------------------------------
(* The Enforcer's operations *)

EnforcedSchemas ==
    {"numbers", "strings", "unique", "fixed", "limited",
     "anyObject", "record", "sized", "closed", "open", "merged"}

EnforceSets == {EnforceDefaults, EnforceAll, EnforceLoose}

ElementValues == {Num(1), Num(2), Str("1")}
PropertyValues == {Num(1), Str("b"), Null}
PropertyKeys == {"foo", "bar", "baz"}

InitialValues ==
    {Arr(<<>>), Arr(<<Num(1)>>), Arr(<<Num(1), Num(2)>>), Arr(<<Str("1")>>),
     Arr(<<Num(1), Num(2), Num(1)>>), Num(1),
     Obj(<<>>), Obj(<<Prop("foo", Num(1))>>), Obj(<<Prop("foo", Str("a"))>>),
     Obj(<<Prop("foo", Num(1)), Prop("bar", Str("a"))>>),
     Obj(<<Prop("bar", Str("a")), Prop("baz", Num(1))>>)}

\* the argument lists of push, unshift and splice
Inserts == UNION {[1..n -> ElementValues] : n \in 1..MaxInsert}

InitEnforcer ==
    /\ enforced = NotWrapped
    /\ attempt = NoAttempt
    /\ call = [schema |-> "anything", value |-> Undefined, options |-> AllRules,
               before |-> <<>>]
    /\ errors = <<>>
    /\ raised = FALSE
    /\ done = TRUE
    /\ derived = NoDerived
    /\ made = NotMade
    /\ frame = NoFrame
    /\ handled = NotHandled

\* the end of enforce(schema, value): an invalid initial value raises
Wrapped(schema, enforce, value, kind) ==
    /\ attempt' = Attempt("wrap", schema, enforce, "", Undefined, value, kind)
    /\ enforced' = IF kind = "" THEN Live(schema, enforce, value) ELSE NotWrapped
    /\ UNCHANGED <<call, errors, raised, done, derived, made, frame, handled>>

\* enforce(schema, value): the initial value is validated
Wrap ==
    /\ enforced = NotWrapped
    /\ attempt = NoAttempt
    /\ \E schema \in EnforcedSchemas, enforce \in EnforceSets, value \in InitialValues :
          Wrapped(schema, enforce, value,
                  First(<<Check(enforce, schema, value),
                          checkUnknown(enforce, schema, value)>>))

\* Commit writing the candidate before the check has decided
CommitBeforeCheck(op, key, candidate, kind) ==
    /\ candidate.t = "array" => Len(candidate.v) <= MaxLen + MaxInsert
    /\ attempt' = Attempt(op, enforced.schema, enforced.enforce, key, enforced.value,
                          candidate, kind)
    /\ enforced' = [enforced EXCEPT !.value = candidate]
    /\ UNCHANGED <<call, errors, raised, done, derived, made, frame, handled>>

\* the end of a mutation: the candidate is committed, or the error is raised
\* and the value stays as it is
Commit(op, key, candidate, kind) ==
    /\ kind = "" /\ candidate.t = "array" => Len(candidate.v) <= MaxLen
    /\ attempt' = Attempt(op, enforced.schema, enforced.enforce, key, enforced.value,
                          candidate, kind)
    /\ enforced' = IF kind = "" THEN [enforced EXCEPT !.value = candidate]
                   ELSE enforced
    /\ UNCHANGED <<call, errors, raised, done, derived, made, frame, handled>>

\* an array operation: checked, then committed or rejected as a whole
MutateArray(op, candidate, fresh) ==
    Commit(op, "", candidate,
           checkArray(enforced.enforce, enforced.schema, candidate, fresh))

Ready == attempt = NoAttempt

Push ==
    /\ IsLiveArray /\ Ready
    /\ \E xs \in Inserts : MutateArray("push", pushed(enforced.value, xs), xs)

Unshift ==
    /\ IsLiveArray /\ Ready
    /\ \E xs \in Inserts : MutateArray("unshift", unshifted(enforced.value, xs), xs)

Pop ==
    /\ IsLiveArray /\ Ready
    /\ MutateArray("pop", popped(enforced.value), <<>>)

Shift ==
    /\ IsLiveArray /\ Ready
    /\ MutateArray("shift", shifted(enforced.value), <<>>)

\* splice: checked with the removal counted as asked for, then as a whole
MutateSplice(deleteCount, candidate, fresh) ==
    Commit("splice", "", candidate,
           First(<<checkSpliceLength(enforced.enforce, enforced.schema, enforced.value,
                                     deleteCount, fresh),
                   checkArray(enforced.enforce, enforced.schema, candidate, fresh)>>))

Splice ==
    /\ IsLiveArray /\ Ready
    /\ \E start \in 0..Len(enforced.value.v), deleteCount \in 0..MaxInsert,
          xs \in Inserts \cup {<<>>} :
          MutateSplice(deleteCount, spliced(enforced.value, start, deleteCount, xs), xs)

SetIndex ==
    /\ IsLiveArray /\ Ready
    /\ \E index \in 0..MaxLen, x \in ElementValues :
          MutateArray("set", assigned(enforced.value, index, x), <<x>>)

Fill ==
    /\ IsLiveArray /\ Ready
    /\ \E x \in ElementValues, start \in 0..Len(enforced.value.v),
          end \in 0..Len(enforced.value.v) :
          /\ start < end
          /\ MutateArray("fill", filled(enforced.value, x, start, end), <<x>>)

\* the elements copyWithin writes
copiedElements(candidate, target, count) == SubSeq(candidate.v, target + 1, target + count)

CopyWithin ==
    /\ IsLiveArray /\ Ready
    /\ \E target \in 0..Len(enforced.value.v), start \in 0..Len(enforced.value.v) :
          /\ target < Len(enforced.value.v) /\ start < Len(enforced.value.v)
          /\ MutateArray("copyWithin", copiedWithin(enforced.value, target, start),
                         copiedElements(copiedWithin(enforced.value, target, start), target,
                                        copyCount(enforced.value, target, start)))

\* a property write: checked, then committed or rejected
MutateSet(key, candidate) ==
    Commit("setProperty", key, candidate,
           checkSet(enforced.enforce, enforced.schema, candidate, key))

\* o[key] = x
SetProperty ==
    /\ IsLiveObject /\ Ready
    /\ \E key \in PropertyKeys, x \in PropertyValues :
          MutateSet(key, withProperty(enforced.value, key, x))

\* a property delete: checked, then committed or rejected
MutateDelete(key, candidate) ==
    Commit("deleteProperty", key, candidate,
           checkDelete(enforced.enforce, enforced.schema, candidate))

\* delete o[key]
DeleteProperty ==
    /\ IsLiveObject /\ Ready
    /\ \E key \in PropertyKeys :
          MutateDelete(key, withoutProperty(enforced.value, key))

\* the attempt has returned or thrown: the caller reads the value and goes on
Observe ==
    /\ IsLive
    /\ attempt # NoAttempt
    /\ attempt' = NoAttempt
    /\ UNCHANGED <<enforced, call, errors, raised, done, derived, made, frame, handled>>

NextEnforcer ==
    \/ Wrap \/ Observe
    \/ Push \/ Unshift \/ Pop \/ Shift \/ Splice \/ SetIndex \/ Fill \/ CopyWithin
    \/ SetProperty \/ DeleteProperty

SpecEnforcer == InitEnforcer /\ [][NextEnforcer]_vars

-----------------------------------------------------------------------------
(* Derived arrays and nested enforced values.  `derived` is the second     *)
(* enforced value a caller holds next to the enforced one: an array made   *)
(* by concat, filter, map, slice or returned by splice, with a value of    *)
(* its own, or a nested array or object read out of the enforced value,    *)
(* which is the part of the enforced value at its path.                    *)

\* the sub-schema a key is held to: the declared property's, else the
\* additionalProperties schema, else none ("")
SubSchema(schema, key) ==
    IF key \in DeclaredKeys(schema) THEN PropertySchema(schema, key)
    ELSE IF Schema(schema).additionalProperties \notin {"", "false"}
         THEN Schema(schema).additionalProperties
         ELSE ""

\* the sub-schema of what is read at a key of an object or an index of an array
schemaAt(schema, value, key) ==
    IF value.t = "array"
    THEN IF Has(schema, "items") THEN Schema(schema).items ELSE ""
    ELSE SubSchema(schema, key)

RECURSIVE at(_, _)
\* the part of a value at a path of keys and indices
at(value, path) ==
    IF path = <<>> THEN value ELSE at(PropValue(value, Head(path)), Tail(path))

RECURSIVE put(_, _, _)
\* a value with the part at a path replaced
put(value, path, x) ==
    IF path = <<>> THEN x
    ELSE IF value.t = "array"
         THEN Arr([i \in SeqIndices(value.v) |->
                      IF IndexKey[i] = Head(path)
                      THEN put(value.v[i], Tail(path), x) ELSE value.v[i]])
         ELSE Obj([i \in SeqIndices(value.v) |->
                      IF value.v[i].k = Head(path)
                      THEN Prop(Head(path), put(value.v[i].v, Tail(path), x))
                      ELSE value.v[i]])

LinkedSchemas == {"numbers", "grid", "holder"}

LinkedValues ==
    {Arr(<<>>), Arr(<<Num(1), Num(2)>>),
     Arr(<<Arr(<<Num(1)>>)>>), Arr(<<Arr(<<>>), Arr(<<Str("1")>>)>>),
     Obj(<<>>),
     Obj(<<Prop("list", Arr(<<Num(1)>>)), Prop("info", Obj(<<Prop("foo", Str("a"))>>))>>),
     Obj(<<Prop("rows", Arr(<<Arr(<<Num(1)>>)>>))>>)}

LinkedElements == {Num(1), Str("1"), Arr(<<Num(2)>>), Arr(<<Str("1")>>)}
\* what is written on the source object, and through a nested object
LinkedKeys == {"list", "info"}
LinkedProperties == {Arr(<<>>), Arr(<<Str("1")>>), Obj(<<>>)}
NestedKeys == {"foo", "n"}
NestedProperties == {Num(1), Str("b")}

\* array.map callbacks: doubling, and turning every element into a string
MapCallbacks == {"double", "text"}
mapped(f, x) == IF f = "double" /\ x.t = "number" THEN Num(2 * x.v) ELSE Str("1")

RECURSIVE keptFrom(_, _, _)
keptFrom(s, keep, i) ==
    IF i > Len(s) THEN <<>>
    ELSE (IF i \in keep THEN <<s[i]>> ELSE <<>>) \o keptFrom(s, keep, i + 1)

\* the elements of an array the filter callback keeps, in order
kept(a, keep) == Arr(keptFrom(a.v, keep, 1))

sliced(a, begin) == Arr(SubSeq(a.v, begin + 1, Len(a.v)))

\* the elements splice removes
removed(a, start, deleteCount) ==
    Arr(SubSeq(a.v, start + 1, Min(Len(a.v), start + deleteCount)))

\* an enforced array of its own, under the schema and rule set of its source
Derived(schema, enforce, value) ==
    [state |-> "live", kind |-> "derived", schema |-> schema, enforce |-> enforce,
     path |-> <<>>, value |-> value]

\* a nested value: the part of the enforced value at the path, under its sub-schema
Nested(schema, enforce, path) ==
    [state |-> "live", kind |-> "nested", schema |-> schema, enforce |-> enforce,
     path |-> path, value |-> Undefined]

IsDerived == derived.state = "live" /\ derived.kind = "derived"
IsNested == derived.state = "live" /\ derived.kind = "nested"

WrapLinked ==
    /\ enforced = NotWrapped
    /\ attempt = NoAttempt
    /\ \E schema \in LinkedSchemas, enforce \in EnforceSets, value \in LinkedValues :
          Wrapped(schema, enforce, value,
                  First(<<Check(enforce, schema, value),
                          checkUnknown(enforce, schema, value)>>))

\* the new array sharing its elements with the source: what is made is the source
DeriveShared(op, candidate, kind) ==
    /\ Len(candidate.v) <= MaxLen
    /\ attempt' = Attempt(op, enforced.schema, enforced.enforce, "", enforced.value,
                          candidate, kind)
    /\ derived' = IF kind = "" THEN Derived(enforced.schema, enforced.enforce, candidate)
                  ELSE NoDerived
    /\ enforced' = IF kind = "" THEN [enforced EXCEPT !.value = candidate] ELSE enforced
    /\ UNCHANGED <<call, errors, raised, done, made, frame, handled>>

\* the end of concat, filter, map and slice: the new array is enforced under
\* the source's schema, or the error is raised; the source is not touched
Derive(op, candidate, kind) ==
    /\ Len(candidate.v) <= MaxLen
    /\ attempt' = Attempt(op, enforced.schema, enforced.enforce, "", enforced.value,
                          candidate, kind)
    /\ derived' = IF kind = "" THEN Derived(enforced.schema, enforced.enforce, candidate)
                  ELSE NoDerived
    /\ UNCHANGED <<enforced, call, errors, raised, done, made, frame, handled>>

CanDerive == IsLiveArray /\ Ready /\ derived = NoDerived

Concat ==
    /\ CanDerive
    /\ \E x \in LinkedElements :
          Derive("concat", pushed(enforced.value, <<x>>),
                 Check(enforced.enforce, enforced.schema, pushed(enforced.value, <<x>>)))

Filter ==
    /\ CanDerive
    /\ \E keep \in SUBSET SeqIndices(enforced.value.v) :
          Derive("filter", kept(enforced.value, keep),
                 Check(enforced.enforce, enforced.schema, kept(enforced.value, keep)))

Map ==
    /\ CanDerive
    /\ \E f \in MapCallbacks :
          Derive("map", Arr([i \in SeqIndices(enforced.value.v) |->
                                mapped(f, enforced.value.v[i])]),
                 Check(enforced.enforce, enforced.schema,
                       Arr([i \in SeqIndices(enforced.value.v) |->
                               mapped(f, enforced.value.v[i])])))

Slice ==
    /\ CanDerive
    /\ \E begin \in 0..Len(enforced.value.v) :
          Derive("slice", sliced(enforced.value, begin),
                 Check(enforced.enforce, enforced.schema, sliced(enforced.value, begin)))

\* the end of splice for its caller: the source is changed in place and the
\* removed elements come back as an enforced array of their own
Spliced(candidate, out, kind) ==
    /\ attempt' = Attempt("splice", enforced.schema, enforced.enforce, "", enforced.value,
                          candidate, kind)
    /\ enforced' = IF kind = "" THEN [enforced EXCEPT !.value = candidate] ELSE enforced
    /\ derived' = IF kind = "" THEN Derived(enforced.schema, enforced.enforce, out)
                  ELSE NoDerived
    /\ UNCHANGED <<call, errors, raised, done, made, frame, handled>>

SpliceOut ==
    /\ CanDerive
    /\ \E start \in 0..Len(enforced.value.v), deleteCount \in 1..MaxInsert :
          Spliced(spliced(enforced.value, start, deleteCount, <<>>),
                  removed(enforced.value, start, deleteCount),
                  First(<<checkSpliceLength(enforced.enforce, enforced.schema,
                                            enforced.value, deleteCount, <<>>),
                          checkArray(enforced.enforce, enforced.schema,
                                     spliced(enforced.value, start, deleteCount, <<>>),
                                     <<>>)>>))

\* a mutation of the derived array: checked under its schema, committed to it
MutateDerived(op, candidate, kind) ==
    /\ kind = "" => Len(candidate.v) <= MaxLen
    /\ attempt' = Attempt(op, derived.schema, derived.enforce, "", derived.value,
                          candidate, kind)
    /\ derived' = IF kind = "" THEN [derived EXCEPT !.value = candidate] ELSE derived
    /\ UNCHANGED <<enforced, call, errors, raised, done, made, frame, handled>>

DerivedPush ==
    /\ IsDerived /\ Ready
    /\ \E x \in LinkedElements :
          MutateDerived("derivedPush", pushed(derived.value, <<x>>),
                        checkArray(derived.enforce, derived.schema,
                                   pushed(derived.value, <<x>>), <<x>>))

DerivedPop ==
    /\ IsDerived /\ Ready
    /\ MutateDerived("derivedPop", popped(derived.value),
                     checkArray(derived.enforce, derived.schema, popped(derived.value),
                                <<>>))

\* a push on the source, of numbers, strings and arrays
LinkedPush ==
    /\ IsLiveArray /\ Ready
    /\ \E x \in LinkedElements : MutateArray("push", pushed(enforced.value, <<x>>), <<x>>)

\* o[key] = x on the source, of arrays and objects too
LinkedWrite ==
    /\ IsLiveObject /\ Ready /\ derived = NoDerived
    /\ \E key \in LinkedKeys, x \in LinkedProperties :
          MutateSet(key, withProperty(enforced.value, key, x))

\* the path of the value the caller reads from: the enforced value itself, or
\* the nested value already held
Holding == IF IsNested THEN derived.path ELSE <<>>
HeldSchema == IF IsNested THEN derived.schema ELSE enforced.schema

\* a read of an index or property that holds an array or an object: what
\* comes back is enforced under the sub-schema of where it was read
ReadNested ==
    /\ IsLive /\ Ready /\ ~IsDerived
    /\ \E key \in KeySet(at(enforced.value, Holding)) :
          /\ PropValue(at(enforced.value, Holding), key).t \in {"array", "object"}
          /\ schemaAt(HeldSchema, at(enforced.value, Holding), key) # ""
          /\ derived' = Nested(schemaAt(HeldSchema, at(enforced.value, Holding), key),
                               enforced.enforce, Holding \o <<key>>)
    /\ UNCHANGED <<enforced, attempt, call, errors, raised, done, made, frame, handled>>

\* a mutation through a nested value that skips the check
MutateNestedUnchecked(op, key, candidate, kind) ==
    /\ candidate.t = "array" => Len(candidate.v) <= MaxLen
    /\ attempt' = Attempt(op, derived.schema, derived.enforce, key,
                          at(enforced.value, derived.path), candidate, "")
    /\ enforced' = [enforced EXCEPT !.value = put(@, derived.path, candidate)]
    /\ UNCHANGED <<derived, call, errors, raised, done, made, frame, handled>>

\* a mutation through a nested value: checked under the nested value's
\* schema; committed, it changes the enforced value at the nested path
MutateNested(op, key, candidate, kind) ==
    /\ kind = "" /\ candidate.t = "array" => Len(candidate.v) <= MaxLen
    /\ attempt' = Attempt(op, derived.schema, derived.enforce, key,
                          at(enforced.value, derived.path), candidate, kind)
    /\ enforced' = IF kind = "" THEN [enforced EXCEPT !.value = put(@, derived.path, candidate)]
                   ELSE enforced
    /\ UNCHANGED <<derived, call, errors, raised, done, made, frame, handled>>

IsNestedArray ==
    /\ IsNested /\ at(enforced.value, derived.path).t = "array"
    /\ schemaType(derived.schema) = "array"
IsNestedObject == IsNested /\ at(enforced.value, derived.path).t = "object"

NestedPush ==
    /\ IsNestedArray /\ Ready
    /\ \E x \in LinkedElements :
          MutateNested("nestedPush", "", pushed(at(enforced.value, derived.path), <<x>>),
                       checkArray(derived.enforce, derived.schema,
                                  pushed(at(enforced.value, derived.path), <<x>>), <<x>>))

NestedWrite ==
    /\ IsNestedObject /\ Ready
    /\ \E key \in NestedKeys, x \in NestedProperties :
          MutateNested("nestedWrite", key,
                       withProperty(at(enforced.value, derived.path), key, x),
                       checkSet(derived.enforce, derived.schema,
                                withProperty(at(enforced.value, derived.path), key, x),
                                key))

\* the caller lets go of the derived or nested value
Forget ==
    /\ derived # NoDerived /\ Ready
    /\ derived' = NoDerived
    /\ UNCHANGED <<enforced, attempt, call, errors, raised, done, made, frame, handled>>

NextLinked ==
    \/ WrapLinked \/ Observe \/ Forget
    \/ Concat \/ Filter \/ Map \/ Slice \/ SpliceOut
    \/ DerivedPush \/ DerivedPop \/ LinkedPush \/ LinkedWrite
    \/ ReadNested \/ NestedPush \/ NestedWrite

SpecLinked == InitEnforcer /\ [][NextLinked]_vars

-----------------------------------------------------------------------------
(* The Materializer: apply-template.  A call of applyTemplate returns       *)
(* {applied, value}, or throws.  The node applyTemplate builds for a        *)
(* discriminator (a copy of the schema without its discriminator) is the     *)
(* schema's name with the flag `copy`.                                      *)

Result(applied, value) == [applied |-> applied, value |-> value, raised |-> FALSE]
Thrown == [applied |-> FALSE, value |-> Undefined, raised |-> TRUE]

\* module.exports.defaults, and the toggles turned one at a time
PopulateDefaults ==
    [autoFormat |-> TRUE, defaultsUseParams |-> TRUE, ignoreMissingRequired |-> TRUE,
     useDefaults |-> TRUE, useTemplates |-> TRUE, useVariables |-> TRUE]

PopulateSets ==
    {PopulateDefaults,
     [PopulateDefaults EXCEPT !.autoFormat = FALSE],
     [PopulateDefaults EXCEPT !.ignoreMissingRequired = FALSE],
     [PopulateDefaults EXCEPT !.useDefaults = FALSE],
     [PopulateDefaults EXCEPT !.defaultsUseParams = FALSE, !.useTemplates = FALSE],
     [PopulateDefaults EXCEPT !.useDefaults = FALSE, !.useTemplates = FALSE,
                              !.useVariables = FALSE]}

\* params: the variables bound by the caller
ParamSets == {<<>>, [name |-> Str("Bob"), size |-> Str("5")]}

\* convertTo[type](value): numeric strings to numbers, numbers to strings,
\* boolean-like strings to booleans
convertTo(type, value) ==
    CASE type \in {"integer", "number"} /\ value = Str("5") -> Num(5)
      [] type \in {"integer", "number"} /\ value = Str("2") -> Num(2)
      [] type = "string" /\ value = Num(5) -> Str("5")
      [] type = "string" /\ value = Num(2) -> Str("2")
      [] type = "boolean" /\ value = Str("true") -> Bool(TRUE)
      [] type = "boolean" /\ value = Str("false") -> Bool(FALSE)
      [] OTHER -> value

\* options.injector(schema, template): the handlebar placeholders of the
\* template replaced by the params that are bound
injector(template, params) ==
    IF template = "Hi {name}" /\ "name" \in DOMAIN params /\ params.name = Str("Bob")
    THEN "Hi Bob"
    ELSE template

\* Object.assign(target, source)
RECURSIVE assignFrom(_, _, _)
assignFrom(target, source, i) ==
    IF i > Len(ObjectKeys(source)) THEN target
    ELSE assignFrom(withProperty(target, ObjectKeys(source)[i],
                                 PropValue(source, ObjectKeys(source)[i])),
                    source, i + 1)

assign(target, source) == assignFrom(target, source, 1)

\* a schema handed to applyTemplate
Node(name) == [name |-> name, copy |-> FALSE]
Copy(name) == [name |-> name, copy |-> TRUE]

\* schema.discriminator of a node: the copy has none
Discriminator(node) == IF node.copy THEN "" ELSE Schema(node.name).discriminator

\* value.hasOwnProperty(key); undefined and null have no such method
Throws(value) == value.t \in {"undefined", "null"}
hasOwnProperty(value, key) == key \in KeySet(value)

\* definitions[value[schema.discriminator]]: "" when undefined
second(node, value) ==
    IF PropValue(value, Discriminator(node)).t = "string"
        /\ PropValue(value, Discriminator(node)).v \in Definitions
    THEN PropValue(value, Discriminator(node)).v
    ELSE ""

\* the allOf applyTemplate builds for a discriminator: the members of the
\* subtype other than the schema, then the copy of the schema
subtypeAllOf(node, name) ==
    [i \in SeqIndices(SelectSeq(IF Has(name, "allOf") THEN Schema(name).allOf ELSE <<name>>,
                                LAMBDA s : Node(s) # node)) |->
        Node(SelectSeq(IF Has(name, "allOf") THEN Schema(name).allOf ELSE <<name>>,
                       LAMBDA s : Node(s) # node)[i])]
        \o <<Copy(node.name)>>

schemaAllOf(node) ==
    [i \in SeqIndices(Schema(node.name).allOf) |-> Node(Schema(node.name).allOf[i])]

\* the property's sub-schema is one applyTemplate looks into
looksInto(options, subSchema) ==
    \/ options.useTemplates /\ Has(subSchema, "x-template")
    \/ options.useVariables /\ Has(subSchema, "x-variable")
    \/ options.useDefaults /\ Has(subSchema, "default")
    \/ schemaType(subSchema) = "object"

\* the variable branch: the param copied and, under autoFormat, converted
variable(options, schema, value) ==
    IF options.autoFormat /\ schemaType(schema) \in {"boolean", "integer", "number", "string"}
    THEN Result(TRUE, convertTo(schemaType(schema), value))
    ELSE Result(TRUE, value)

\* the default branch: a string default goes through the injector when
\* defaults use params, any other default is copied
default(options, params, schema) ==
    IF options.defaultsUseParams /\ Schema(schema).default.t = "string"
    THEN Result(TRUE, Str(injector(Schema(schema).default.v, params)))
    ELSE Result(TRUE, Schema(schema).default)

\* an object node that hands back what it filled whatever is required
objectResultKept(options, schema, value, result, setDefault) ==
    IF setDefault THEN Result(TRUE, result) ELSE Result(FALSE, value)

\* the required guard, then {applied: setDefault, value: setDefault ? result : value}
objectResult(options, schema, value, result, setDefault) ==
    IF setDefault /\ (options.ignoreMissingRequired
                       \/ \A i \in SeqIndices(Schema(schema).required) :
                             hasOwnProperty(result, Schema(schema).required[i]))
    THEN Result(TRUE, result)
    ELSE Result(FALSE, value)

RECURSIVE applyTemplate(_, _, _, _, _)
RECURSIVE allOfApply(_, _, _, _, _, _, _)
RECURSIVE allOfApplied(_, _, _, _, _, _, _, _)
RECURSIVE itemsApply(_, _, _, _, _, _, _)
RECURSIVE itemsApplied(_, _, _, _, _, _, _, _)
RECURSIVE propertiesApply(_, _, _, _, _, _, _)
RECURSIVE propertiesApplied(_, _, _, _, _, _, _, _)
RECURSIVE additionalApply(_, _, _, _, _, _, _, _)
RECURSIVE additionalApplied(_, _, _, _, _, _, _, _, _)

\* schema.allOf.forEach: each member applied to the value ({} when none was
\* given), the values of the applied members merged onto {}
allOfApply(members, i, options, params, value, count, merged) ==
    IF i > Len(members) THEN Result(count > 1, merged)
    ELSE allOfApplied(members, i, options, params, value, count, merged,
                      applyTemplate(members[i], options, params, TRUE, value))

allOfApplied(members, i, options, params, value, count, merged, data) ==
    IF data.raised THEN Thrown
    ELSE IF data.applied
         THEN allOfApply(members, i + 1, options, params, value, count + 1,
                         assign(merged, data.value))
         ELSE allOfApply(members, i + 1, options, params, value, count, merged)

\* value.map: each item applied to the items schema
itemsApply(schema, i, options, params, value, result, setDefault) ==
    IF i > Len(value.v)
    THEN Result(setDefault, IF setDefault THEN Arr(result) ELSE value)
    ELSE itemsApplied(schema, i, options, params, value, result, setDefault,
                      applyTemplate(Node(Schema(schema).items), options, params, TRUE,
                                    value.v[i]))

itemsApplied(schema, i, options, params, value, result, setDefault, data) ==
    IF data.raised THEN Thrown
    ELSE itemsApply(schema, i + 1, options, params, value, Append(result, data.value),
                    setDefault \/ data.applied)

\* Object.keys(properties).forEach, then the additional properties
propertiesApply(schema, i, options, params, value, result, setDefault) ==
    IF i > Len(Schema(schema).properties)
    THEN IF Schema(schema).additionalProperties \notin {"", "false"}
         THEN additionalApply(schema, ObjectKeys(result), 1, options, params, value, result,
                              setDefault)
         ELSE objectResult(options, schema, value, result, setDefault)
    ELSE IF looksInto(options, Schema(schema).properties[i].v)
         THEN propertiesApplied(schema, i, options, params, value, result, setDefault,
                 IF hasOwnProperty(result, Schema(schema).properties[i].k)
                 THEN applyTemplate(Node(Schema(schema).properties[i].v), options, params,
                                    TRUE, PropValue(result, Schema(schema).properties[i].k))
                 ELSE applyTemplate(Node(Schema(schema).properties[i].v), options, params,
                                    FALSE, Undefined))
         ELSE propertiesApply(schema, i + 1, options, params, value, result, setDefault)

propertiesApplied(schema, i, options, params, value, result, setDefault, data) ==
    IF data.raised THEN Thrown
    ELSE IF data.applied
         THEN propertiesApply(schema, i + 1, options, params, value,
                              withProperty(result, Schema(schema).properties[i].k, data.value),
                              TRUE)
         ELSE propertiesApply(schema, i + 1, options, params, value, result, setDefault)

\* Object.keys(result).forEach for the keys that are not declared
additionalApply(schema, keys, i, options, params, value, result, setDefault) ==
    IF i > Len(keys) THEN objectResult(options, schema, value, result, setDefault)
    ELSE IF keys[i] \notin DeclaredKeys(schema)
         THEN additionalApplied(schema, keys, i, options, params, value, result, setDefault,
                 applyTemplate(Node(Schema(schema).additionalProperties), options, params,
                               TRUE, PropValue(result, keys[i])))
         ELSE additionalApply(schema, keys, i + 1, options, params, value, result, setDefault)

additionalApplied(schema, keys, i, options, params, value, result, setDefault, data) ==
    IF data.raised THEN Thrown
    ELSE IF data.applied
         THEN additionalApply(schema, keys, i + 1, options, params, value,
                              withProperty(result, keys[i], data.value), TRUE)
         ELSE additionalApply(schema, keys, i + 1, options, params, value, result,
                              setDefault)

\* applyTemplate(schema, definitions, params, options[, value]); `provided`
\* is arguments.length >= 5
applyTemplate(node, options, params, provided, value) ==
    CASE ~Has(node.name, "allOf") /\ Discriminator(node) # "" /\ Throws(value) -> Thrown
      [] ~Has(node.name, "allOf") /\ Discriminator(node) # "" /\ ~Throws(value)
            /\ hasOwnProperty(value, Discriminator(node)) ->
            IF second(node, value) = "" THEN Thrown
            ELSE allOfApply(subtypeAllOf(node, second(node, value)), 1, options, params,
                            IF provided THEN value ELSE Obj(<<>>), 0, Obj(<<>>))
      [] OTHER ->
            CASE Has(node.name, "allOf") ->
                    allOfApply(schemaAllOf(node), 1, options, params,
                               IF provided THEN value ELSE Obj(<<>>), 0, Obj(<<>>))
              [] ~Has(node.name, "allOf") /\ ~provided /\ options.useVariables
                    /\ Has(node.name, "x-variable")
                    /\ Schema(node.name).xVariable \in DOMAIN params ->
                    variable(options, node.name, params[Schema(node.name).xVariable])
              [] OTHER ->
                    CASE ~provided /\ options.useTemplates /\ Has(node.name, "x-template")
                            /\ injector(Schema(node.name).xTemplate, params)
                                  # Schema(node.name).xTemplate ->
                            Result(TRUE, Str(injector(Schema(node.name).xTemplate, params)))
                      [] OTHER ->
                            CASE ~provided /\ options.useDefaults /\ Has(node.name, "default") ->
                                    default(options, params, node.name)
                              [] OTHER ->
                                    CASE schemaType(node.name) = "array" ->
                                            IF value.t # "array" \/ ~Has(node.name, "items")
                                            THEN Result(FALSE, value)
                                            ELSE itemsApply(node.name, 1, options, params,
                                                            value, <<>>, FALSE)
                                      [] schemaType(node.name) = "object" ->
                                            IF provided /\ (~Truthy(value)
                                                            \/ Typeof(value) # "object")
                                            THEN Result(FALSE, value)
                                            ELSE propertiesApply(node.name, 1, options, params,
                                                    value,
                                                    IF provided THEN assign(Obj(<<>>), value)
                                                    ELSE Obj(<<>>),
                                                    FALSE)
                                      [] OTHER -> Result(FALSE, value)

\* module.exports(schema, definitions, params, options[, initialValue])
materialize(schema, options, params, provided, initialValue) ==
    IF options.useDefaults \/ options.useTemplates \/ options.useVariables
    THEN applyTemplate(Node(schema), options, params, provided, initialValue)
    ELSE Result(FALSE, initialValue)

MaterializedSchemas ==
    {"count", "size", "greeting", "person", "people", "crowd", "winged", "both",
     "animal", "Bird", "flock"}

MaterializedValues ==
    {Undefined, Null, Num(5), Obj(<<>>),
     Obj(<<Prop("name", Str("Al"))>>),
     Obj(<<Prop("name", Str("Al")), Prop("age", Num(5)), Prop("size", Num(5))>>),
     Arr(<<Obj(<<>>)>>),
     Obj(<<Prop("a", Obj(<<>>))>>),
     Obj(<<Prop("wings", Num(2)), Prop("legs", Num(2))>>),
     Obj(<<Prop("kind", Str("Bird"))>>),
     Obj(<<Prop("kind", Str("Bird")), Prop("wings", Num(2))>>),
     Obj(<<Prop("kind", Str("Dog"))>>)}

Made(schema, options, params, provided, value, again, data) ==
    [state |-> "made", schema |-> schema, options |-> options, params |-> params,
     provided |-> provided, value |-> value, again |-> again,
     applied |-> data.applied, result |-> data.value, raised |-> data.raised]

InitMaterializer ==
    /\ call = [schema |-> "anything", value |-> Undefined, options |-> AllRules,
               before |-> <<>>]
    /\ errors = <<>>
    /\ raised = FALSE
    /\ done = TRUE
    /\ enforced = NotWrapped
    /\ attempt = NoAttempt
    /\ derived = NoDerived
    /\ made = NotMade
    /\ frame = NoFrame
    /\ handled = NotHandled

\* a call of the Materializer, with an initial value or without one
Materialize ==
    /\ made = NotMade
    /\ \E schema \in MaterializedSchemas, options \in PopulateSets, params \in ParamSets,
          provided \in BOOLEAN, value \in MaterializedValues :
          /\ ~provided => value = Undefined
          /\ made' = Made(schema, options, params, provided, value, FALSE,
                          materialize(schema, options, params, provided, value))
    /\ UNCHANGED <<call, errors, raised, done, enforced, attempt, derived, frame, handled>>

\* the value a call returned handed to a second call of the same kind
MaterializeAgain ==
    /\ made.state = "made" /\ ~made.raised /\ ~made.again
    /\ made' = Made(made.schema, made.options, made.params, TRUE, made.result, TRUE,
                    materialize(made.schema, made.options, made.params, TRUE,
                                made.result))
    /\ UNCHANGED <<call, errors, raised, done, enforced, attempt, derived, frame, handled>>

NextMaterializer == Materialize \/ MaterializeAgain

SpecMaterializer == InitMaterializer /\ [][NextMaterializer]_vars

-----------------------------------------------------------------------------
(* The Materializer over a store.  Objects and arrays live at the addresses *)
(* of `cells` and are referred to by Ref; a property or an element holds a  *)
(* primitive or a Ref; an assignment to a property is a write to the cell   *)
(* of the object assigned to.  Of a schema node the store keeps the         *)
(* discriminator, the one keyword applyTemplate deletes.                    *)

\* the object a default is: {a: {}} at 1 and 2; params.box: {a: {}} at 3 and 4
SharedCells ==
    <<Obj(<<Prop("a", Ref(2))>>), Obj(<<>>), Obj(<<Prop("a", Ref(4))>>), Obj(<<>>)>>

Store(cells) ==
    [cells |-> cells,
     discriminator |-> [node \in {Node(name) : name \in DOMAIN Schemas} |->
                            Schema(node.name).discriminator]]

\* the object or array a value refers to; a primitive is itself
At(mem, x) == IF x.t = "ref" THEN mem.cells[x.a] ELSE x

\* a new object or array
Alloc(mem, cell) ==
    [mem |-> [mem EXCEPT !.cells = Append(@, cell)], value |-> Ref(Len(mem.cells) + 1)]

\* target[key] = x
store(mem, target, key, x) ==
    [mem EXCEPT !.cells[target.a] = withProperty(@, key, x)]

RECURSIVE copyIn(_, _)
RECURSIVE copyCell(_, _, _, _)
\* copy(value): a deep copy, each object and array below the value new
copyIn(mem, x) ==
    IF x.t # "ref" THEN [mem |-> mem, value |-> x]
    ELSE copyCell(mem, mem.cells[x.a], 1, <<>>)

copyCell(mem, cell, i, acc) ==
    IF i > Len(cell.v) THEN Alloc(mem, [cell EXCEPT !.v = acc])
    ELSE IF cell.t = "object"
         THEN copyCell(copyIn(mem, cell.v[i].v).mem, cell, i + 1,
                       Append(acc, Prop(cell.v[i].k, copyIn(mem, cell.v[i].v).value)))
         ELSE copyCell(copyIn(mem, cell.v[i]).mem, cell, i + 1,
                       Append(acc, copyIn(mem, cell.v[i]).value))

Out(mem, applied, value) ==
    [mem |-> mem, applied |-> applied, value |-> value, raised |-> FALSE]
ThrownIn(mem) == [mem |-> mem, applied |-> FALSE, value |-> Undefined, raised |-> TRUE]

\* definitions[value[schema.discriminator]]: "" when undefined
secondIn(mem, node, value) ==
    IF PropValue(At(mem, value), mem.discriminator[node]).t = "string"
        /\ PropValue(At(mem, value), mem.discriminator[node]).v \in Definitions
    THEN PropValue(At(mem, value), mem.discriminator[node]).v
    ELSE ""

\* schemaCopy = Object.assign({}, schema); delete schemaCopy.discriminator
schemaCopy(mem, node) ==
    [mem EXCEPT !.discriminator = (Copy(node.name) :> "") @@ @]

\* result = valueNotProvided ? {} : Object.assign({}, value), kept in place
resultAliased(mem, provided, value) ==
    IF provided THEN [mem |-> mem, value |-> value] ELSE Alloc(mem, Obj(<<>>))

\* result = valueNotProvided ? {} : Object.assign({}, value)
resultOf(mem, provided, value) ==
    IF provided THEN Alloc(mem, assign(Obj(<<>>), At(mem, value)))
    ELSE Alloc(mem, Obj(<<>>))

\* the required guard on the stored result
objectResultIn(mem, options, schema, value, result, setDefault) ==
    Out(mem, objectResult(options, schema, value, At(mem, result), setDefault).applied,
        IF objectResult(options, schema, value, At(mem, result), setDefault).applied
        THEN result ELSE value)

RECURSIVE assignAll(_, _, _, _)
\* Object.assign.apply(Object, applications): the sources assigned onto the
\* first, in order
assignAll(mem, target, applications, i) ==
    IF i > Len(applications) THEN mem
    ELSE assignAll([mem EXCEPT !.cells[target.a] = assign(@, At(mem, applications[i]))],
                   target, applications, i + 1)

RECURSIVE applyTemplateIn(_, _, _, _, _, _)
RECURSIVE allOfApplyIn(_, _, _, _, _, _, _, _, _)
RECURSIVE allOfAppliedIn(_, _, _, _, _, _, _, _, _)
RECURSIVE itemsApplyIn(_, _, _, _, _, _, _, _)
RECURSIVE itemsAppliedIn(_, _, _, _, _, _, _, _)
RECURSIVE propertiesApplyIn(_, _, _, _, _, _, _, _)
RECURSIVE propertiesAppliedIn(_, _, _, _, _, _, _, _)
RECURSIVE additionalApplyIn(_, _, _, _, _, _, _, _, _)
RECURSIVE additionalAppliedIn(_, _, _, _, _, _, _, _, _)

\* applications = [{}]; schema.allOf.forEach with a new {} for each member
\* when no value was given; then the merge onto applications[0]
allOfApplyIn(mem, members, i, options, params, provided, value, target, applications) ==
    IF i > Len(members)
    THEN Out(assignAll(mem, target, applications, 1), Len(applications) > 1, target)
    ELSE IF provided
         THEN allOfAppliedIn(members, i, options, params, provided, value, target,
                             applications,
                             applyTemplateIn(mem, members[i], options, params, TRUE, value))
         ELSE allOfAppliedIn(members, i, options, params, provided, value, target,
                             applications,
                             applyTemplateIn(Alloc(mem, Obj(<<>>)).mem, members[i], options,
                                             params, TRUE, Alloc(mem, Obj(<<>>)).value))

allOfAppliedIn(members, i, options, params, provided, value, target, applications, data) ==
    IF data.raised THEN ThrownIn(data.mem)
    ELSE allOfApplyIn(data.mem, members, i + 1, options, params, provided, value, target,
                      IF data.applied THEN Append(applications, data.value)
                      ELSE applications)

\* value.map: a new array of the items' values
itemsApplyIn(mem, schema, i, options, params, value, result, setDefault) ==
    IF i > Len(At(mem, value).v)
    THEN Out(Alloc(mem, Arr(result)).mem, setDefault,
             IF setDefault THEN Alloc(mem, Arr(result)).value ELSE value)
    ELSE itemsAppliedIn(schema, i, options, params, value, result, setDefault,
                        applyTemplateIn(mem, Node(Schema(schema).items), options, params,
                                        TRUE, At(mem, value).v[i]))

itemsAppliedIn(schema, i, options, params, value, result, setDefault, data) ==
    IF data.raised THEN ThrownIn(data.mem)
    ELSE itemsApplyIn(data.mem, schema, i + 1, options, params, value,
                      Append(result, data.value), setDefault \/ data.applied)

\* Object.keys(properties).forEach: result[property] = data.value
propertiesApplyIn(mem, schema, i, options, params, value, result, setDefault) ==
    IF i > Len(Schema(schema).properties)
    THEN IF Schema(schema).additionalProperties \notin {"", "false"}
         THEN additionalApplyIn(mem, schema, ObjectKeys(At(mem, result)), 1, options, params,
                                value, result, setDefault)
         ELSE objectResultIn(mem, options, schema, value, result, setDefault)
    ELSE IF looksInto(options, Schema(schema).properties[i].v)
         THEN propertiesAppliedIn(schema, i, options, params, value, result, setDefault,
                 IF hasOwnProperty(At(mem, result), Schema(schema).properties[i].k)
                 THEN applyTemplateIn(mem, Node(Schema(schema).properties[i].v), options,
                                      params, TRUE,
                                      PropValue(At(mem, result),
                                                Schema(schema).properties[i].k))
                 ELSE applyTemplateIn(mem, Node(Schema(schema).properties[i].v), options,
                                      params, FALSE, Undefined))
         ELSE propertiesApplyIn(mem, schema, i + 1, options, params, value, result,
                                setDefault)

propertiesAppliedIn(schema, i, options, params, value, result, setDefault, data) ==
    IF data.raised THEN ThrownIn(data.mem)
    ELSE IF data.applied
         THEN propertiesApplyIn(store(data.mem, result, Schema(schema).properties[i].k,
                                      data.value),
                                schema, i + 1, options, params, value, result, TRUE)
         ELSE propertiesApplyIn(data.mem, schema, i + 1, options, params, value, result,
                                setDefault)

\* Object.keys(result).forEach for the keys that are not declared
additionalApplyIn(mem, schema, keys, i, options, params, value, result, setDefault) ==
    IF i > Len(keys) THEN objectResultIn(mem, options, schema, value, result, setDefault)
    ELSE IF keys[i] \notin DeclaredKeys(schema)
         THEN additionalAppliedIn(schema, keys, i, options, params, value, result,
                 setDefault,
                 applyTemplateIn(mem, Node(Schema(schema).additionalProperties), options,
                                 params, TRUE, PropValue(At(mem, result), keys[i])))
         ELSE additionalApplyIn(mem, schema, keys, i + 1, options, params, value, result,
                                setDefault)

additionalAppliedIn(schema, keys, i, options, params, value, result, setDefault, data) ==
    IF data.raised THEN ThrownIn(data.mem)
    ELSE IF data.applied
         THEN additionalApplyIn(store(data.mem, result, keys[i], data.value), schema, keys,
                                i + 1, options, params, value, result, TRUE)
         ELSE additionalApplyIn(data.mem, schema, keys, i + 1, options, params, value,
                                result, setDefault)

\* applyTemplate over the store, branch by branch as applyTemplate above
applyTemplateIn(mem, node, options, params, provided, value) ==
    CASE ~Has(node.name, "allOf") /\ mem.discriminator[node] # "" /\ Throws(value) ->
            ThrownIn(mem)
      [] ~Has(node.name, "allOf") /\ mem.discriminator[node] # "" /\ ~Throws(value)
            /\ hasOwnProperty(At(mem, value), mem.discriminator[node]) ->
            IF secondIn(mem, node, value) = "" THEN ThrownIn(mem)
            ELSE allOfApplyIn(Alloc(schemaCopy(mem, node), Obj(<<>>)).mem,
                              subtypeAllOf(node, secondIn(mem, node, value)), 1, options,
                              params, provided, value,
                              Alloc(schemaCopy(mem, node), Obj(<<>>)).value, <<>>)
      [] OTHER ->
            CASE Has(node.name, "allOf") ->
                    allOfApplyIn(Alloc(mem, Obj(<<>>)).mem, schemaAllOf(node), 1, options,
                                 params, provided, value, Alloc(mem, Obj(<<>>)).value, <<>>)
              [] ~Has(node.name, "allOf") /\ ~provided /\ options.useVariables
                    /\ Has(node.name, "x-variable")
                    /\ Schema(node.name).xVariable \in DOMAIN params ->
                    Out(copyIn(mem, params[Schema(node.name).xVariable]).mem, TRUE,
                        variable(options, node.name,
                                 copyIn(mem, params[Schema(node.name).xVariable]).value).value)
              [] OTHER ->
                    CASE ~provided /\ options.useTemplates /\ Has(node.name, "x-template")
                            /\ injector(Schema(node.name).xTemplate, params)
                                  # Schema(node.name).xTemplate ->
                            Out(mem, TRUE, Str(injector(Schema(node.name).xTemplate, params)))
                      [] OTHER ->
                            CASE ~provided /\ options.useDefaults /\ Has(node.name, "default") ->
                                    IF options.defaultsUseParams
                                        /\ Schema(node.name).default.t = "string"
                                    THEN Out(mem, TRUE,
                                             default(options, params, node.name).value)
                                    ELSE Out(copyIn(mem, Schema(node.name).default).mem, TRUE,
                                             copyIn(mem, Schema(node.name).default).value)
                              [] OTHER ->
                                    CASE schemaType(node.name) = "array" ->
                                            IF At(mem, value).t # "array"
                                                \/ ~Has(node.name, "items")
                                            THEN Out(mem, FALSE, value)
                                            ELSE itemsApplyIn(mem, node.name, 1, options,
                                                              params, value, <<>>, FALSE)
                                      [] schemaType(node.name) = "object" ->
                                            IF provided /\ (~Truthy(At(mem, value))
                                                            \/ Typeof(At(mem, value)) # "object")
                                            THEN Out(mem, FALSE, value)
                                            ELSE propertiesApplyIn(
                                                    resultOf(mem, provided, value).mem,
                                                    node.name, 1, options, params, value,
                                                    resultOf(mem, provided, value).value,
                                                    FALSE)
                                      [] OTHER -> Out(mem, FALSE, value)

\* module.exports over the store
materializeIn(mem, schema, options, params, provided, initialValue) ==
    IF options.useDefaults \/ options.useTemplates \/ options.useVariables
    THEN applyTemplateIn(mem, Node(schema), options, params, provided, initialValue)
    ELSE Out(mem, FALSE, initialValue)

RECURSIVE Tree(_, _)
\* the value with every reference replaced by what it refers to
Tree(mem, x) ==
    CASE x.t # "ref" -> x
      [] x.t = "ref" /\ mem.cells[x.a].t = "object" ->
            Obj([i \in SeqIndices(mem.cells[x.a].v) |->
                    Prop(mem.cells[x.a].v[i].k, Tree(mem, mem.cells[x.a].v[i].v))])
      [] OTHER -> Arr([i \in SeqIndices(mem.cells[x.a].v) |-> Tree(mem, mem.cells[x.a].v[i])])

RECURSIVE Reach(_, _)
\* the addresses of the objects and arrays at or below the value
Reach(mem, x) ==
    IF x.t # "ref" THEN {}
    ELSE {x.a} \cup UNION {Reach(mem, IF mem.cells[x.a].t = "object"
                                      THEN mem.cells[x.a].v[i].v ELSE mem.cells[x.a].v[i]) :
                              i \in SeqIndices(mem.cells[x.a].v)}

\* the schemas materialized over the store and the params bound for them
SharedSchemas == MaterializedSchemas \cup {"boxed", "boxVar", "crate", "crates"}
SharedParams == {<<>>, [name |-> Str("Bob"), size |-> Str("5"), box |-> Ref(3)]}

\* the initial values: the value and the objects and arrays below it, which
\* follow the shared cells in the store
SharedValues ==
    {[value |-> Undefined, cells |-> <<>>],
     [value |-> Num(5), cells |-> <<>>],
     [value |-> Ref(5), cells |-> <<Obj(<<>>)>>],
     [value |-> Ref(5), cells |-> <<Obj(<<Prop("name", Str("Al"))>>)>>],
     [value |-> Ref(5), cells |-> <<Obj(<<Prop("a", Ref(6))>>), Obj(<<>>)>>],
     [value |-> Ref(5), cells |-> <<Obj(<<Prop("box", Ref(6))>>),
                                    Obj(<<Prop("a", Ref(7))>>), Obj(<<>>)>>],
     [value |-> Ref(5), cells |-> <<Arr(<<Ref(6)>>), Obj(<<>>)>>],
     [value |-> Ref(5), cells |-> <<Obj(<<Prop("kind", Str("Bird"))>>)>>],
     [value |-> Ref(5), cells |-> <<Obj(<<Prop("kind", Str("Bird")),
                                          Prop("wings", Num(2))>>)>>]}

MadeIn(schema, options, params, provided, value, before, data) ==
    [state |-> "shared", schema |-> schema, options |-> options, params |-> params,
     provided |-> provided, value |-> value, before |-> before, after |-> data.mem,
     applied |-> data.applied, result |-> data.value, raised |-> data.raised,
     again |-> FALSE]

\* a call of the Materializer on values in the store
MaterializeIn ==
    /\ made = NotMade
    /\ \E schema \in SharedSchemas, options \in PopulateSets, params \in SharedParams,
          provided \in BOOLEAN, initial \in SharedValues :
          /\ ~provided => initial.value = Undefined
          /\ made' = MadeIn(schema, options, params, provided, initial.value,
                            Store(SharedCells \o initial.cells),
                            materializeIn(Store(SharedCells \o initial.cells), schema,
                                          options, params, provided, initial.value))
    /\ UNCHANGED <<call, errors, raised, done, enforced, attempt, derived, frame, handled>>

\* the value the call returned handed to a second call on the store the
\* first call left
MaterializeInAgain ==
    /\ made.state = "shared" /\ ~made.raised /\ ~made.again
    /\ made' = [MadeIn(made.schema, made.options, made.params, TRUE, made.result,
                       made.after,
                       materializeIn(made.after, made.schema, made.options, made.params,
                                     TRUE, made.result))
                   EXCEPT !.again = TRUE]
    /\ UNCHANGED <<call, errors, raised, done, enforced, attempt, derived, frame, handled>>

NextShared == MaterializeIn \/ MaterializeInAgain

SpecShared == InitMaterializer /\ [][NextShared]_vars

-----------------------------------------------------------------------------
(* The recursion of validate and of applyTemplate, one call at a time.     *)
(* `frame` is a call with its arguments; a step goes from a call to one of *)
(* the calls it makes, and a call that makes none returns.  A call         *)
(* finishes exactly when every such walk down from it comes to an end:     *)
(* each call makes finitely many calls.  Every call adds a level to the    *)
(* call stack; `stack` is its height modulo 2, which tells a call from the *)
(* same call made again one level further down.                            *)

ValidateFrame(schema, depth, value) ==
    [fn |-> "validate", schema |-> Node(schema), depth |-> depth, value |-> value,
     stack |-> 0]

ApplyFrame(node, provided, value) ==
    [fn |-> "applyTemplate", schema |-> node, provided |-> provided, value |-> value,
     stack |-> 0]

Returned == [fn |-> "returned"]

\* the members a combinator of the node validates the value against, at the
\* depth of the node
combined(f, members) ==
    {ValidateFrame(members[i], f.depth, f.value) : i \in SeqIndices(members)}

\* validate.object under one effective schema: a call for each key that is
\* declared, or that the additionalProperties schema covers
keysCalled(f, e) ==
    {ValidateFrame(SubSchema(e, k), f.depth + 1, PropValue(f.value, k)) :
        k \in {key \in KeySet(f.value) : SubSchema(e, key) # ""}}

\* the calls of validate a call of validate makes, all rules enabled
validateCalls(f) ==
    CASE Has(f.schema.name, "anyOf") -> combined(f, Schema(f.schema.name).anyOf)
      [] ~Has(f.schema.name, "anyOf") /\ Has(f.schema.name, "oneOf") ->
            combined(f, Schema(f.schema.name).oneOf)
      [] ~Has(f.schema.name, "anyOf") /\ ~Has(f.schema.name, "oneOf") /\ Has(f.schema.name, "allOf") ->
            combined(f, Schema(f.schema.name).allOf)
      [] ~Has(f.schema.name, "anyOf") /\ ~Has(f.schema.name, "oneOf") /\ ~Has(f.schema.name, "allOf")
            /\ Has(f.schema.name, "not") ->
            {ValidateFrame(Schema(f.schema.name).not, f.depth, f.value)}
      [] OTHER ->
            CASE schemaType(f.schema.name) = "array" /\ f.value.t = "array"
                    /\ Has(f.schema.name, "items") /\ AllRules.depth > f.depth ->
                    {ValidateFrame(Schema(f.schema.name).items, f.depth + 1, f.value.v[i]) :
                        i \in {j \in SeqIndices(f.value.v) : f.value.v[j].t # "hole"}}
              [] schemaType(f.schema.name) = "object" /\ Truthy(f.value)
                    /\ Typeof(f.value) = "object" /\ AllRules.depth > f.depth ->
                    UNION {keysCalled(f, effective(EnforceAll, f.schema.name, f.value)[i]) :
                              i \in SeqIndices(effective(EnforceAll, f.schema.name, f.value))}
              [] OTHER -> {}

\* the params and options of the walk: none bound, module.exports.defaults
WalkParams == <<>>

\* a call for every member of an allOf, on the value or on {}
membersCalled(f, members) ==
    {ApplyFrame(members[i], TRUE, IF f.provided THEN f.value ELSE Obj(<<>>)) :
        i \in SeqIndices(members)}

\* a call for a declared property applyTemplate looks into: on the value's
\* property, or without a value
propertyCalled(f, p) ==
    IF hasOwnProperty(f.value, p.k)
    THEN ApplyFrame(Node(p.v), TRUE, PropValue(f.value, p.k))
    ELSE ApplyFrame(Node(p.v), FALSE, Undefined)

\* the calls of the object branch
propertiesCalled(f, schema) ==
    {propertyCalled(f, Schema(schema).properties[i]) :
        i \in {j \in SeqIndices(Schema(schema).properties) :
                  looksInto(PopulateDefaults, Schema(schema).properties[j].v)}}
    \cup
    {ApplyFrame(Node(Schema(schema).additionalProperties), TRUE, PropValue(f.value, k)) :
        k \in {key \in KeySet(f.value) :
                  /\ Schema(schema).additionalProperties \notin {"", "false"}
                  /\ key \notin DeclaredKeys(schema)}}

\* the value is filled from a variable, a template or the default: no call
filledIn(f) ==
    /\ ~f.provided
    /\ \/ Has(f.schema.name, "x-variable")
             /\ Schema(f.schema.name).xVariable \in DOMAIN WalkParams
       \/ Has(f.schema.name, "x-template")
             /\ injector(Schema(f.schema.name).xTemplate, WalkParams)
                   # Schema(f.schema.name).xTemplate
       \/ Has(f.schema.name, "default")

\* the calls of applyTemplate a call of applyTemplate makes
applyCalls(f) ==
    CASE ~Has(f.schema.name, "allOf") /\ Discriminator(f.schema) # "" /\ Throws(f.value) -> {}
      [] ~Has(f.schema.name, "allOf") /\ Discriminator(f.schema) # "" /\ ~Throws(f.value)
            /\ hasOwnProperty(f.value, Discriminator(f.schema)) ->
            IF second(f.schema, f.value) = "" THEN {}
            ELSE membersCalled(f, subtypeAllOf(f.schema, second(f.schema, f.value)))
      [] OTHER ->
            CASE Has(f.schema.name, "allOf") -> membersCalled(f, schemaAllOf(f.schema))
              [] ~Has(f.schema.name, "allOf") /\ filledIn(f) -> {}
              [] OTHER ->
                    CASE schemaType(f.schema.name) = "array" /\ f.value.t = "array"
                            /\ Has(f.schema.name, "items") ->
                            {ApplyFrame(Node(Schema(f.schema.name).items), TRUE, f.value.v[i]) :
                                i \in SeqIndices(f.value.v)}
                      [] schemaType(f.schema.name) = "object"
                            /\ (f.provided => Truthy(f.value) /\ Typeof(f.value) = "object") ->
                            propertiesCalled(f, f.schema.name)
                      [] OTHER -> {}

calls(f) == IF f.fn = "validate" THEN validateCalls(f) ELSE applyCalls(f)

WalkSchemas ==
    {"loop", "anyLoop", "oneLoop", "notLoop", "tree", "nest", "baseD", "Duo",
     "person", "people", "both", "Cat", "grid", "holder", "allBounds", "anyNested"}

WalkValues ==
    {Num(1), Obj(<<>>),
     Obj(<<Prop("label", Str("a")), Prop("child", Obj(<<Prop("child", Obj(<<>>))>>))>>),
     Arr(<<Arr(<<>>), Arr(<<Arr(<<>>)>>)>>),
     Obj(<<Prop("kind", Str("Duo"))>>),
     Obj(<<Prop("kind", Str("Cat")), Prop("foo", Num(1))>>),
     Arr(<<Obj(<<Prop("name", Str("Al"))>>)>>),
     Obj(<<Prop("rows", Arr(<<Arr(<<Num(1)>>)>>)), Prop("list", Arr(<<Num(1)>>))>>)}

\* validate or materialize is called
Enter ==
    /\ frame = NoFrame
    /\ \E schema \in WalkSchemas, value \in WalkValues :
          \/ frame' = ValidateFrame(schema, 0, value)
          \/ frame' = ApplyFrame(Node(schema), TRUE, value)
          \/ frame' = ApplyFrame(Node(schema), FALSE, Undefined)
    /\ UNCHANGED <<call, errors, raised, done, enforced, attempt, derived, made, handled>>

\* the call reaches one of the calls it makes
Descend ==
    /\ frame.fn \in {"validate", "applyTemplate"}
    /\ \E callee \in calls(frame) : frame' = [callee EXCEPT !.stack = 1 - frame.stack]
    /\ UNCHANGED <<call, errors, raised, done, enforced, attempt, derived, made, handled>>

\* a call that makes no call returns (or throws)
Return ==
    /\ frame.fn \in {"validate", "applyTemplate"}
    /\ calls(frame) = {}
    /\ frame' = Returned
    /\ UNCHANGED <<call, errors, raised, done, enforced, attempt, derived, made, handled>>

NextWalk == Enter \/ Descend \/ Return

SpecWalk == InitMaterializer /\ [][NextWalk]_vars

\* the call stack always goes on: a call that is made runs
SpecWalkFair == SpecWalk /\ WF_vars(NextWalk)

-----------------------------------------------------------------------------
(* discriminate, one call at a time.  `frame` holds the state the calls of  *)
(* one resolution share: the map of visited nodes, the list allOf, the      *)
(* validation context, and `pending`, the calls still to be made in the     *)
(* order the recursion makes them (the members of an allOf, the subtype of  *)
(* a discriminator, then what the callers still have to do).  `expanded`    *)
(* lists the nodes that got past the visited test.                          *)

ResolveFrame(options, schema, value) ==
    [fn |-> "discriminate", v |-> Context(options, <<>>), value |-> value,
     schema |-> schema, map |-> {}, allOf |-> <<>>, pending |-> <<schema>>,
     expanded |-> <<>>]

\* visitNode appending a node that was visited before once more
visitNodeAgain(f, schema) ==
    IF schema \in f.map
    THEN [f EXCEPT !.allOf = Append(@, schema), !.pending = Tail(@)]
    ELSE IF f.v.options.allOf /\ Has(schema, "allOf")
    THEN [f EXCEPT !.map = @ \cup {schema}, !.expanded = Append(@, schema),
                   !.pending = Schema(schema).allOf \o Tail(@)]
    ELSE IF f.v.options.discriminator /\ Has(schema, "discriminator")
    THEN IF getDiscriminatorSchema(schema, f.value) # ""
         THEN [f EXCEPT !.map = @ \cup {schema}, !.expanded = Append(@, schema),
                        !.allOf = Append(@, schema),
                        !.pending = <<getDiscriminatorSchema(schema, f.value)>> \o Tail(@)]
         ELSE [f EXCEPT !.map = @ \cup {schema}, !.expanded = Append(@, schema),
                        !.allOf = Append(@, schema), !.pending = Tail(@),
                        !.v = error(@, RootPrefix,
                                    [code |-> "discriminator",
                                     key |-> getDiscriminatorKey(schema, f.value)])]
    ELSE [f EXCEPT !.map = @ \cup {schema}, !.expanded = Append(@, schema),
                   !.allOf = Append(@, schema), !.pending = Tail(@)]

\* the body of one call discriminate(v, map, allOf, prefix, schema, value),
\* up to the calls it makes
visitNode(f, schema) ==
    IF schema \in f.map
    THEN [f EXCEPT !.pending = Tail(@)]
    ELSE IF f.v.options.allOf /\ Has(schema, "allOf")
    THEN [f EXCEPT !.map = @ \cup {schema}, !.expanded = Append(@, schema),
                   !.pending = Schema(schema).allOf \o Tail(@)]
    ELSE IF f.v.options.discriminator /\ Has(schema, "discriminator")
    THEN IF getDiscriminatorSchema(schema, f.value) # ""
         THEN [f EXCEPT !.map = @ \cup {schema}, !.expanded = Append(@, schema),
                        !.allOf = Append(@, schema),
                        !.pending = <<getDiscriminatorSchema(schema, f.value)>> \o Tail(@)]
         ELSE [f EXCEPT !.map = @ \cup {schema}, !.expanded = Append(@, schema),
                        !.allOf = Append(@, schema), !.pending = Tail(@),
                        !.v = error(@, RootPrefix,
                                    [code |-> "discriminator",
                                     key |-> getDiscriminatorKey(schema, f.value)])]
    ELSE [f EXCEPT !.map = @ \cup {schema}, !.expanded = Append(@, schema),
                   !.allOf = Append(@, schema), !.pending = Tail(@)]

ResolvedSchemas ==
    {"animal", "Cat", "Bird", "Duo", "baseD", "Self", "loop", "merged", "record", "both"}

ResolvedValues ==
    {Obj(<<>>), Obj(<<Prop("kind", Str("Cat"))>>), Obj(<<Prop("kind", Str("Bird"))>>),
     Obj(<<Prop("kind", Str("Duo"))>>), Obj(<<Prop("kind", Str("Self"))>>),
     Obj(<<Prop("kind", Str("Dog")), Prop("foo", Num(1))>>)}

ResolvedOptions ==
    {AllRules, Without(AllRules, {"allOf"}), Without(AllRules, {"discriminator"})}

\* validate.object starts a resolution with a new map and an empty list
Resolve ==
    /\ frame = NoFrame
    /\ \E options \in ResolvedOptions, schema \in ResolvedSchemas, value \in ResolvedValues :
          frame' = ResolveFrame(options, schema, value)
    /\ UNCHANGED <<call, errors, raised, done, enforced, attempt, derived, made, handled>>

\* the next call of discriminate runs
Visit ==
    /\ frame.fn = "discriminate"
    /\ frame.pending # <<>>
    /\ frame' = visitNode(frame, Head(frame.pending))
    /\ UNCHANGED <<call, errors, raised, done, enforced, attempt, derived, made, handled>>

\* the outermost call returns allOf
Resolved ==
    /\ frame.fn = "discriminate"
    /\ frame.pending = <<>>
    /\ frame' = [frame EXCEPT !.fn = "resolved"]
    /\ UNCHANGED <<call, errors, raised, done, enforced, attempt, derived, made, handled>>

NextResolve == Resolve \/ Visit \/ Resolved

SpecResolve == InitMaterializer /\ [][NextResolve]_vars

\* a call that is made runs
SpecResolveFair == SpecResolve /\ WF_vars(NextResolve)

-----------------------------------------------------------------------------
(* exports.request: the parameters of a request, parsed against the        *)
(* parameters the operation declares.  The requests taken carry no header  *)
(* and no path parameter; the operation declares no body parameter.        *)

MaxQuery == 2        \* most query items of one request

\* schema.parameters of the operation, by name: all are query parameters
QueryParameters ==
    [flag  |-> [type |-> "boolean", collectionFormat |-> "", items |-> ""],
     limit |-> [type |-> "integer", collectionFormat |-> "", items |-> ""],
     tags  |-> [type |-> "array", collectionFormat |-> "multi", items |-> "boolean"]]

\* parameters.query[name] is set and its `in` is 'query'
Declared(name) == name \in DOMAIN QueryParameters

\* parse(errors, prefix, schema, value): a boolean is read off the string;
\* every other type hands the errors array to a checker of validate.js in
\* the place of its `v`, and the checker throws on v.options
parse(type, value) ==
    CASE type = "boolean" ->
            [raised |-> FALSE, value |-> IF value = "false" THEN Bool(FALSE) ELSE Bool(value # "")]
      [] OTHER -> [raised |-> TRUE, value |-> Undefined]

\* the result object before any parameter is parsed
EmptyResult ==
    Obj(<<Prop("formData", Obj(<<>>)), Prop("header", Obj(<<>>)),
          Prop("path", Obj(<<>>)), Prop("query", Obj(<<>>))>>)

\* query[name] = x, where query is the object made for result.query (a
\* later result[name] = ... may have put something else under 'query')
withQuery(acc, name, x) == [acc EXCEPT !.query = withProperty(@, name, x)]

\* query[name].push(x), after query[name] = [] when there is none
pushQuery(acc, name, x) ==
    withQuery(acc, name,
              IF Truthy(PropValue(acc.query, name))
              THEN Arr(Append(PropValue(acc.query, name).v, x))
              ELSE Arr(<<x>>))

\* the body of request.query.forEach for one item
queryItem(acc, item, options) ==
    CASE Declared(item.name) /\ QueryParameters[item.name].type = "array"
            /\ QueryParameters[item.name].collectionFormat = "multi" ->
            IF parse(QueryParameters[item.name].items, item.value).raised
            THEN [acc EXCEPT !.raised = TRUE]
            ELSE pushQuery(acc, item.name,
                           parse(QueryParameters[item.name].items, item.value).value)
      [] Declared(item.name) ->
            IF parse(QueryParameters[item.name].type, item.value).raised
            THEN [acc EXCEPT !.raised = TRUE]
            ELSE withQuery(acc, item.name,
                           parse(QueryParameters[item.name].type, item.value).value)
      [] options.strict ->
            [acc EXCEPT !.errors = Append(@, "Query parameter not allowed: " \o item.name)]
      [] ~options.purge ->
            [acc EXCEPT !.result = withProperty(@, item.name, Str(item.value))]
      [] OTHER -> acc

RECURSIVE queryFrom(_, _, _, _)
queryFrom(acc, query, i, options) ==
    IF i > Len(query) \/ acc.raised THEN acc
    ELSE queryFrom(queryItem(acc, query[i], options), query, i + 1, options)

\* what `return result` hands back: result.query is the query object unless
\* result[name] = ... has replaced it
returned(acc) ==
    IF acc.raised THEN [raised |-> TRUE, result |-> Undefined]
    ELSE [raised |-> FALSE,
          result |-> IF "query" \in KeySet(acc.result) /\ PropValue(acc.result, "query").t = "string"
                     THEN acc.result
                     ELSE withProperty(acc.result, "query", acc.query)]

\* exports.request(context, request, strPath, store): throws for a path or a
\* method the document does not define, then parses the query; the errors
\* array is local and is dropped on return
request(defined, query, options) ==
    IF ~defined THEN [raised |-> TRUE, result |-> Undefined]
    ELSE returned(queryFrom([raised |-> FALSE, result |-> EmptyResult,
                             query |-> Obj(<<>>), errors |-> <<>>],
                            query, 1, options))

\* errors at the return, for what the caller cannot see
requestErrors(query, options) ==
    queryFrom([raised |-> FALSE, result |-> EmptyResult, query |-> Obj(<<>>),
               errors |-> <<>>], query, 1, options).errors

QueryItems ==
    {[name |-> "flag", value |-> "true"], [name |-> "flag", value |-> "false"],
     [name |-> "tags", value |-> "true"], [name |-> "limit", value |-> "1"],
     [name |-> "zz", value |-> "1"], [name |-> "query", value |-> "9"]}

Queries == UNION {[1..n -> QueryItems] : n \in 0..MaxQuery}

RequestOptions == [strict : BOOLEAN, purge : BOOLEAN]

\* a request is handed over and handled
Request ==
    /\ handled = NotHandled
    /\ \E defined \in BOOLEAN, query \in Queries, options \in RequestOptions :
          handled' = [state |-> "handled", defined |-> defined, query |-> query,
                      options |-> options,
                      raised |-> request(defined, query, options).raised,
                      result |-> request(defined, query, options).result,
                      errors |-> IF defined THEN requestErrors(query, options) ELSE <<>>]
    /\ UNCHANGED <<call, errors, raised, done, enforced, attempt, derived, made, frame>>

\* the caller is done with the answer
Answered ==
    /\ handled # NotHandled
    /\ handled' = NotHandled
    /\ UNCHANGED <<call, errors, raised, done, enforced, attempt, derived, made, frame>>

NextRequest == Request \/ Answered

SpecRequest == InitMaterializer /\ [][NextRequest]_vars

-----------------------------------------------------------------------------
(* Properties of the Validator *)

\* a branch validated on its own, into an error sequence of its own
BranchResult(options, schema, value) ==
    validate(Context(options, <<>>), RootPrefix, 0, schema, value)

\* the branches that validate the value with zero errors
ErrorFree(options, branches, value) ==
    {i \in SeqIndices(branches) :
        /\ ~BranchResult(options, branches[i], value).raised
        /\ Len(BranchResult(options, branches[i], value).errors) = 0}

\* the call under way dispatches on anyOf / on oneOf
AnyOfCall == call.options.anyOf /\ Has(call.schema, "anyOf")
OneOfCall == ~AnyOfCall /\ call.options.oneOf /\ Has(call.schema, "oneOf")

\* the call added nothing / exactly one record of the given code, and kept
\* the records that were there before it, in their order
AddedNone == errors = call.before
AddedOne(code) ==
    /\ Len(errors) = Len(call.before) + 1
    /\ SubSeq(errors, 1, Len(call.before)) = call.before
    /\ errors[Len(errors)].message.code = code

\* C3: validate never raises: whatever the schema node and the value, the call
\* returns normally and every failure is a record of the error sequence.
C3_NeverRaises == done => ~raised

\* C4: with oneOf, validate adds no record iff exactly one branch is error-free,
\* and exactly one record (the count, every branch's result) otherwise.
C4_OneOfExactlyOne ==
    done /\ OneOfCall =>
        /\ ~raised
        /\ IF Cardinality(ErrorFree(call.options, Schema(call.schema).oneOf, call.value)) = 1
           THEN AddedNone
           ELSE AddedOne("oneOf")

\* C5: with anyOf, every branch is validated into a fresh error sequence; the
\* call adds no record iff some branch is error-free, else exactly one, and
\* the records recorded before the call stay, in their order.
C5_AnyOfIsolated ==
    done /\ AnyOfCall =>
        /\ ~raised
        /\ IF ErrorFree(call.options, Schema(call.schema).anyOf, call.value) # {}
           THEN AddedNone
           ELSE AddedOne("anyOf")

\* what is left of C4 and C5 for the calls that return
OneOfWhenReturned ==
    done /\ OneOfCall /\ ~raised =>
        /\ Cardinality(ErrorFree(call.options, Schema(call.schema).oneOf, call.value)) = 1
        /\ AddedNone
AnyOfWhenReturned ==
    done /\ AnyOfCall /\ ~raised =>
        IF ErrorFree(call.options, Schema(call.schema).anyOf, call.value) # {}
        THEN AddedNone
        ELSE AddedOne("anyOf")

\* the constraint rules of the Validator, each with a toggle of its own
ConstraintRules ==
    {"maximum", "minimum", "multipleOf", "maxLength", "minLength", "pattern",
     "maxItems", "minItems", "uniqueItems", "additionalProperties", "required",
     "maxProperties", "minProperties", "enum"}

\* the node, or a node below it, combines the verdicts of other nodes
Combines(schema) == schema \in {"anyNumStr", "anyBounds", "oneNumStr", "oneNumInt",
                                "anyNested", "notNumber"}

\* the call under way, made again with one rule switched off
ToggledOff(rule) ==
    BranchResult(Without(call.options, {rule}), call.schema, call.value)

\* with the rule off the call records what it recorded with the rule on, less
\* the errors of that rule
Independent(on, off, rule) ==
    /\ ~off.raised
    /\ off.errors = SelectSeq(on, LAMBDA e : e.message.code # rule)

\* a call on a fresh context that returned, on a node with rules of its own
PlainCall == done /\ ~raised /\ call.before = <<>> /\ ~Combines(call.schema)

\* C14: every constraint rule is independently toggleable: with the rule's
\* toggle off validate records no error of that rule, and the errors of the
\* other rules are the same as with the toggle on.
C14_IndependentToggles ==
    PlainCall => \A rule \in ConstraintRules : Independent(errors, ToggledOff(rule), rule)

\* what is left of C14: every rule but multipleOf
TogglesButMultipleOf ==
    PlainCall =>
        \A rule \in ConstraintRules \ {"multipleOf"} :
            Independent(errors, ToggledOff(rule), rule)

\* a value that is no multiple is reported although the multipleOf rule is off
MultipleOfReportedWhenOff ==
    /\ PlainCall /\ Has(call.schema, "multipleOf")
    /\ \E i \in SeqIndices(ToggledOff("multipleOf").errors) :
          ToggledOff("multipleOf").errors[i].message.code = "multipleOf"

\* the object's discriminator property names a subtype without a definition
UndefinedSubtypeCall ==
    /\ done /\ ~Combines(call.schema)
    /\ call.options.discriminator /\ call.options.object
    /\ Has(call.schema, "discriminator") /\ ~Has(call.schema, "allOf")
    /\ call.value.t = "object"
    /\ getDiscriminatorKey(call.schema, call.value).t = "string"
    /\ getDiscriminatorKey(call.schema, call.value).v \notin Definitions

\* the record of a failed discriminator resolution at the object's path
ResolutionFailure ==
    [prefix |-> RootPrefix,
     message |-> [code |-> "discriminator",
                  key |-> getDiscriminatorKey(call.schema, call.value)]]

\* C16: when the discriminator names an undefined subtype, validate does not
\* raise, records exactly one discriminator-resolution error at the object's
\* path, and then the errors of the base schema's own properties, required
\* list and property-count bounds.
C16_UndefinedSubtype ==
    UndefinedSubtypeCall =>
        /\ ~raised
        /\ errors = call.before \o <<ResolutionFailure>>
                    \o ToggledOff("discriminator").errors

\* an undefined subtype on an object that also breaks a rule of the base schema
C16_Witness ==
    /\ UndefinedSubtypeCall
    /\ Len(errors) >= Len(call.before) + 2
    /\ ToggledOff("discriminator").errors # <<>>

\* the call validates a number against a node of type number or integer
NumericCall ==
    /\ done /\ ~raised /\ ~Combines(call.schema) /\ ~Has(call.schema, "allOf")
    /\ schemaType(call.schema) \in {"number", "integer"}
    /\ call.value.t = "number"

\* the records the call added that carry the code
Reports(code) ==
    {i \in (Len(call.before) + 1)..Len(errors) : errors[i].message.code = code}

AboveMaximum ==
    IF Schema(call.schema).exclusiveMaximum
    THEN AtOrAbove(call.value, Num(Schema(call.schema).maximum))
    ELSE Above(call.value, Num(Schema(call.schema).maximum))

BelowMinimum ==
    IF Schema(call.schema).exclusiveMinimum
    THEN AtOrBelow(call.value, Num(Schema(call.schema).minimum))
    ELSE Below(call.value, Num(Schema(call.schema).minimum))

BoundsReported ==
    /\ call.options.maximum /\ Has(call.schema, "maximum") =>
          /\ Reports("maximum") # {} <=> AboveMaximum
          /\ Cardinality(Reports("maximum")) <= 1
    /\ call.options.minimum /\ Has(call.schema, "minimum") =>
          /\ Reports("minimum") # {} <=> BelowMinimum
          /\ Cardinality(Reports("minimum")) <= 1

\* the number is of the node's type: an integer for a node of type integer
PassesType == schemaType(call.schema) = "integer" => ~call.value.frac

AtBoundAccepted ==
    /\ NumericCall /\ call.options.maximum /\ Has(call.schema, "maximum")
    /\ ~Schema(call.schema).exclusiveMaximum
    /\ call.value = Num(Schema(call.schema).maximum)
    /\ errors = call.before

-----------------------------------------------------------------------------
(* What it is for a value to satisfy a schema under a rule set, stated       *)
(* rule by rule and without the Validator.                                  *)

\* the elements an array holds (an empty slot is no element)
Present(value) == {i \in SeqIndices(value.v) : value.v[i].t # "hole"}

\* the value is of the kind the schema resolves to
OfType(schema, value) ==
    CASE schemaType(schema) = "array" -> value.t = "array"
      [] schemaType(schema) = "object" -> value.t = "object"
      [] schemaType(schema) = "number" -> value.t = "number"
      [] schemaType(schema) = "integer" -> value.t = "number" /\ ~value.frac
      [] schemaType(schema) = "string" -> value.t = "string"
      [] schemaType(schema) = "boolean" -> value.t = "boolean"
      [] OTHER -> TRUE

\* the length is within the enabled bounds of the schema
LengthWithin(enforce, schema, length) ==
    /\ enforce.maxItems /\ Has(schema, "maxItems") => length <= Schema(schema).maxItems
    /\ enforce.minItems /\ Has(schema, "minItems") => length >= Schema(schema).minItems

\* no two elements are deep-equal
Distinct(value) ==
    \A i, j \in Present(value) : i # j => ~same(value.v[i], value.v[j])

\* the property count is within the enabled bounds of the schema
CountWithin(enforce, schema, count) ==
    /\ enforce.maxProperties /\ Has(schema, "maxProperties")
          => count <= Schema(schema).maxProperties
    /\ enforce.minProperties /\ Has(schema, "minProperties")
          => count >= Schema(schema).minProperties

\* the schemas an object is held to: the node itself, or the members of its allOf
RECURSIVE Members(_)
Members(schema) ==
    IF Has(schema, "allOf")
    THEN UNION {Members(Schema(schema).allOf[i]) : i \in SeqIndices(Schema(schema).allOf)}
    ELSE {schema}

\* the names the effective schema declares required
RequiredKeys(schema) ==
    UNION {{Schema(e).required[i] : i \in SeqIndices(Schema(e).required)} :
              e \in {m \in Members(schema) : Has(m, "required")}}

RECURSIVE Conforms(_, _, _)
RECURSIVE Rules(_, _, _)

\* every enabled constraint rule of the schema holds of the value
Rules(enforce, schema, value) ==
    CASE Has(schema, "allOf") ->
            \A m \in Members(schema) : Rules(enforce, m, value)
      [] schemaType(schema) = "array" /\ value.t = "array" ->
            /\ LengthWithin(enforce, schema, Len(value.v))
            /\ enforce.uniqueItems /\ Schema(schema).uniqueItems => Distinct(value)
            /\ Has(schema, "items") =>
                  \A i \in Present(value) :
                      Conforms(enforce, Schema(schema).items, value.v[i])
      [] schemaType(schema) = "object" /\ value.t \in {"object", "array"} ->
            /\ CountWithin(enforce, schema, Len(ObjectKeys(value)))
            /\ enforce.required /\ Has(schema, "required") =>
                  \A i \in SeqIndices(Schema(schema).required) :
                      Schema(schema).required[i] \in KeySet(value)
            /\ enforce.additionalProperties /\ Schema(schema).additionalProperties = "false"
                  => KeySet(value) \subseteq DeclaredKeys(schema)
            /\ \A k \in KeySet(value) \cap DeclaredKeys(schema) :
                  Conforms(enforce, PropertySchema(schema, k), PropValue(value, k))
            /\ enforce.additionalProperties
                  /\ Schema(schema).additionalProperties \notin {"", "false"} =>
                  \A k \in KeySet(value) \ DeclaredKeys(schema) :
                      Conforms(enforce, Schema(schema).additionalProperties,
                               PropValue(value, k))
      [] schemaType(schema) \in {"number", "integer"} /\ value.t = "number" ->
            /\ enforce.maximum /\ Has(schema, "maximum") =>
                  IF Schema(schema).exclusiveMaximum
                  THEN Below(value, Num(Schema(schema).maximum))
                  ELSE AtOrBelow(value, Num(Schema(schema).maximum))
            /\ enforce.minimum /\ Has(schema, "minimum") =>
                  IF Schema(schema).exclusiveMinimum
                  THEN Above(value, Num(Schema(schema).minimum))
                  ELSE AtOrAbove(value, Num(Schema(schema).minimum))
      [] schemaType(schema) = "string" /\ value.t = "string" ->
            /\ enforce.maxLength /\ Has(schema, "maxLength") =>
                  Len(value.v) <= Schema(schema).maxLength
            /\ enforce.minLength /\ Has(schema, "minLength") =>
                  Len(value.v) >= Schema(schema).minLength
            /\ enforce.pattern /\ Has(schema, "pattern") =>
                  RegExpTest(Schema(schema).pattern, value.v)
      [] OTHER -> TRUE

\* the value is valid under the schema: of its kind, and within its rules
Conforms(enforce, schema, value) ==
    IF Has(schema, "allOf")
    THEN \A m \in Members(schema) : Conforms(enforce, m, value)
    ELSE OfType(schema, value) /\ Rules(enforce, schema, value)

IsMutation == attempt.op \notin {"none", "wrap"}
Accepted == attempt.outcome = "accepted"
Rejected == attempt.outcome = "rejected"

-----------------------------------------------------------------------------
(* Properties of the Enforcer *)

\* C1: once wrap has succeeded, and after every mutation attempt, accepted or
\* rejected, the enforced value satisfies every enabled enforcement rule of
\* its governing schema.
C1_AlwaysWithinRules ==
    IsLive => Rules(enforced.enforce, enforced.schema, enforced.value)

\* an enforced value that has been changed, right after a rejected attempt
C1_Witness ==
    /\ IsLive /\ IsMutation /\ Rejected
    /\ enforced.value # enforced.initial
    /\ Rules(enforced.enforce, enforced.schema, enforced.value)

BadElement(schema, value) ==
    /\ schemaType(schema) = "array" /\ value.t = "array" /\ Has(schema, "items")
    /\ \E i \in Present(value) : ~OfType(Schema(schema).items, value.v[i])

\* C6: wrap validates the initial value: it raises iff the value violates an
\* enabled rule of the schema, and returns the enforced value otherwise; a
\* non-array for an array schema, an array with an element that violates the
\* items schema, and an array for an object schema raise a type mismatch.
C6_WrapValidates ==
    attempt.op = "wrap" =>
        /\ Rejected <=> ~Conforms(attempt.enforce, attempt.schema, attempt.candidate)
        /\ Accepted => IsLive /\ enforced.value = attempt.candidate
        /\ Rejected => ~IsLive
        /\ schemaType(attempt.schema) = "array" /\ attempt.candidate.t # "array"
              => Rejected /\ attempt.kind = "type mismatch"
        /\ BadElement(attempt.schema, attempt.candidate)
              => Rejected /\ attempt.kind = "type mismatch"
        /\ schemaType(attempt.schema) = "object" /\ attempt.candidate.t = "array"
              => Rejected /\ attempt.kind = "type mismatch"

\* what is left of C6 when the initial value is no array given to an object
\* schema and is not rejected for an unknown property
WrapValidatesButArrays ==
    attempt.op = "wrap"
        /\ ~(schemaType(attempt.schema) = "object" /\ attempt.candidate.t = "array")
        /\ attempt.kind # "unknown-property violation"
    => /\ Rejected <=> ~Conforms(attempt.enforce, attempt.schema, attempt.candidate)
       /\ Accepted => IsLive /\ enforced.value = attempt.candidate
       /\ schemaType(attempt.schema) = "array" /\ attempt.candidate.t # "array"
             => Rejected /\ attempt.kind = "type mismatch"
       /\ BadElement(attempt.schema, attempt.candidate)
             => Rejected /\ attempt.kind = "type mismatch"

LengthOps == {"push", "unshift", "pop", "shift", "splice", "set"}

\* C7: an array mutation is rejected with a length-bound violation iff the
\* length the array would have after the whole operation is above maxItems
\* or below minItems (rules enabled), and a rejected one keeps the length.
C7_ResultingLength ==
    attempt.op \in LengthOps =>
        /\ Rejected /\ attempt.kind = "length-bound violation"
              <=> ~LengthWithin(attempt.enforce, attempt.schema, Len(attempt.candidate.v))
        /\ Rejected => Len(enforced.value.v) = Len(attempt.before.v)

\* what is left of C7: a resulting length outside the bounds is always
\* rejected as a length-bound violation, and nothing but a splice is rejected
\* as one while the resulting length is within the bounds
LengthBoundButSplice ==
    attempt.op \in LengthOps =>
        /\ ~LengthWithin(attempt.enforce, attempt.schema, Len(attempt.candidate.v))
              => Rejected /\ attempt.kind = "length-bound violation"
        /\ Rejected /\ attempt.kind = "length-bound violation" /\ attempt.op # "splice"
              => ~LengthWithin(attempt.enforce, attempt.schema, Len(attempt.candidate.v))
        /\ Rejected => Len(enforced.value.v) = Len(attempt.before.v)

\* a splice that removes and inserts as many elements, at minItems = maxItems
SpliceAtFixedLength ==
    /\ attempt.op = "splice" /\ Accepted
    /\ attempt.enforce.minItems /\ attempt.enforce.maxItems
    /\ Has(attempt.schema, "minItems") /\ Has(attempt.schema, "maxItems")
    /\ Schema(attempt.schema).minItems = Schema(attempt.schema).maxItems
    /\ Len(attempt.before.v) = Schema(attempt.schema).maxItems
    /\ attempt.candidate # attempt.before
    /\ enforced.value = attempt.candidate

\* an index assignment past the current length, within maxItems
SetPastLength ==
    /\ attempt.op = "set" /\ Accepted
    /\ attempt.enforce.maxItems /\ Has(attempt.schema, "maxItems")
    /\ Len(attempt.candidate.v) > Len(attempt.before.v) + 1

\* a second append at maxItems
PushAboveMax ==
    /\ attempt.op = "push" /\ Rejected /\ attempt.kind = "length-bound violation"
    /\ Len(attempt.before.v) = Schema(attempt.schema).maxItems

UniqueOps == {"push", "unshift", "pop", "shift", "splice", "set"}

\* every present element of the array is valid under the items schema
ItemsConform(enforce, schema, value) ==
    Has(schema, "items") =>
        \A i \in Present(value) : Conforms(enforce, Schema(schema).items, value.v[i])

\* C8: with uniqueItems enforced no two elements of the array are ever
\* deep-equal: a mutation that would leave a duplicate is rejected, only such
\* a mutation is rejected for uniqueness, and a push, unshift or index
\* assignment of valid elements within the length bounds is accepted whenever
\* it leaves no duplicate, so a removed value can be added again.
C8_NoDuplicates ==
    /\ IsLive /\ enforced.value.t = "array" /\ enforced.enforce.uniqueItems
            /\ Schema(enforced.schema).uniqueItems
          => Distinct(enforced.value)
    /\ attempt.op \in UniqueOps /\ attempt.enforce.uniqueItems
            /\ Schema(attempt.schema).uniqueItems
          => /\ ~Distinct(attempt.candidate) => Rejected
             /\ attempt.kind = "uniqueness violation" => ~Distinct(attempt.candidate)
             /\ attempt.op \in {"push", "unshift", "set"}
                  /\ Distinct(attempt.candidate)
                  /\ LengthWithin(attempt.enforce, attempt.schema, Len(attempt.candidate.v))
                  /\ ItemsConform(attempt.enforce, attempt.schema, attempt.candidate)
                => Accepted

\* a value of the initial array, removed since, is added again
C8_Witness ==
    /\ attempt.op \in {"push", "splice", "set"} /\ Accepted
    /\ attempt.enforce.uniqueItems /\ Schema(attempt.schema).uniqueItems
    /\ \E i \in Present(enforced.initial) :
          /\ \A j \in Present(attempt.before) : attempt.before.v[j] # enforced.initial.v[i]
          /\ \E j \in Present(attempt.candidate) :
                attempt.candidate.v[j] = enforced.initial.v[i]

\* C9: with required enforced, deleting a property the effective schema
\* declares required (directly or through an allOf member) raises a
\* required-property violation and the property stays with its value; every
\* required property present at construction is still present.
C9_RequiredStays ==
    /\ attempt.op = "deleteProperty" /\ attempt.enforce.required
            /\ attempt.key \in RequiredKeys(attempt.schema)
          => /\ Rejected /\ attempt.kind = "required-property violation"
             /\ attempt.key \in KeySet(enforced.value)
             /\ PropValue(enforced.value, attempt.key)
                    = PropValue(attempt.before, attempt.key)
    /\ IsLive /\ enforced.value.t = "object" /\ enforced.enforce.required
          => \A k \in RequiredKeys(enforced.schema) \cap KeySet(enforced.initial) :
                 k \in KeySet(enforced.value)

\* the delete of a property required through an allOf member, after a write
C9_Witness ==
    /\ attempt.op = "deleteProperty" /\ Rejected
    /\ attempt.kind = "required-property violation"
    /\ Has(attempt.schema, "allOf")
    /\ attempt.key \in KeySet(enforced.value)
    /\ enforced.value # enforced.initial

\* minProperties and maxProperties are both enforced
BothCounts(enforce) == enforce.minProperties /\ enforce.maxProperties

\* the count is below the minProperties / above the maxProperties of the schema
BelowMin(schema, count) ==
    \E m \in Members(schema) :
        Has(m, "minProperties") /\ count < Schema(m).minProperties
AboveMax(schema, count) ==
    \E m \in Members(schema) :
        Has(m, "maxProperties") /\ count > Schema(m).maxProperties

LengthKind == attempt.kind = "length-bound violation"

\* the number of own properties stays within [minProperties, maxProperties]
CountStaysWithin ==
    IsLive /\ enforced.value.t = "object" /\ BothCounts(enforced.enforce) =>
        /\ ~BelowMin(enforced.schema, Len(ObjectKeys(enforced.value)))
        /\ ~AboveMax(enforced.schema, Len(ObjectKeys(enforced.value)))

\* a write is rejected for the count iff the key is new and the count would
\* go above maxProperties
SetWithinMax ==
    attempt.op = "setProperty" /\ BothCounts(attempt.enforce) =>
        IF attempt.key \in KeySet(attempt.before)
        THEN ~LengthKind
        ELSE LengthKind <=> AboveMax(attempt.schema, Len(ObjectKeys(attempt.candidate)))

SetAboveMax ==
    /\ attempt.op = "setProperty" /\ Rejected /\ LengthKind
    /\ BothCounts(attempt.enforce)
SetAtMax ==
    /\ attempt.op = "setProperty" /\ Accepted /\ BothCounts(attempt.enforce)
    /\ Has(attempt.schema, "maxProperties")
    /\ Len(ObjectKeys(attempt.before)) = Schema(attempt.schema).maxProperties

\* undeclared keys are disallowed by additionalProperties: false
Disallowed(enforce, schema, key) ==
    /\ enforce.additionalProperties /\ Schema(schema).additionalProperties = "false"
    /\ key \notin DeclaredKeys(schema)

UnknownKind == attempt.kind = "unknown-property violation"

\* a write on an object governed by one schema, within the property count
PlainWrite ==
    /\ attempt.op = "setProperty" /\ ~Has(attempt.schema, "allOf")
    /\ ~LengthKind

\* the value written is judged by the sub-schema of its key, and by nothing
\* when the key has none
JudgedBySubSchema ==
    PlainWrite /\ ~UnknownKind =>
        IF SubSchema(attempt.schema, attempt.key) # ""
        THEN Rejected <=> ~Conforms(attempt.enforce, SubSchema(attempt.schema, attempt.key),
                                    PropValue(attempt.candidate, attempt.key))
        ELSE Accepted

\* C11: a write of key k, and each key of the initial value, is checked against
\* properties[k] when k is declared, else against the additionalProperties
\* schema, else accepted without validation; an undeclared key is an unknown
\* property only under additionalProperties: false.
C11_SubSchemaOrder ==
    /\ JudgedBySubSchema
    /\ PlainWrite /\ UnknownKind =>
          Disallowed(attempt.enforce, attempt.schema, attempt.key)
    /\ attempt.op = "wrap" /\ UnknownKind /\ ~Has(attempt.schema, "allOf") =>
          \E k \in KeySet(attempt.candidate) :
              Disallowed(attempt.enforce, attempt.schema, k)

\* what is left of C11: an undeclared key is an unknown property also when the
\* schema declares properties and gives no additionalProperties
SubSchemaOrderButUnknown ==
    /\ JudgedBySubSchema
    /\ PlainWrite /\ UnknownKind =>
          /\ attempt.key \notin DeclaredKeys(attempt.schema)
          /\ attempt.enforce.additionalProperties
          /\ \/ Schema(attempt.schema).additionalProperties = "false"
             \/ /\ Has(attempt.schema, "properties")
                /\ Schema(attempt.schema).additionalProperties = ""

\* writes that reach each of the three cases
WriteDeclared ==
    /\ PlainWrite /\ Rejected /\ attempt.key \in DeclaredKeys(attempt.schema)
WriteAdditional ==
    /\ PlainWrite /\ Rejected /\ attempt.key \notin DeclaredKeys(attempt.schema)
    /\ SubSchema(attempt.schema, attempt.key) # ""
WritePassthrough ==
    /\ PlainWrite /\ Accepted /\ SubSchema(attempt.schema, attempt.key) = ""
    /\ PropValue(attempt.candidate, attempt.key) = Null

DeriveOps == {"concat", "filter", "map", "slice"}

\* the element a concat or a push appends
Appended == attempt.candidate.v[Len(attempt.candidate.v)]

\* concat, filter, map and slice leave their source as it was
SourceUntouched == attempt.op \in DeriveOps => enforced.value = attempt.before

\* what a derive operation or splice returns is an enforced array of its
\* own under the schema and the rule set of the source
ReturnsEnforced ==
    attempt.op \in DeriveOps \cup {"splice"} /\ Accepted =>
        /\ IsDerived
        /\ derived.schema = attempt.schema /\ derived.enforce = attempt.enforce
        /\ attempt.op \in DeriveOps => derived.value = attempt.candidate

\* no element that violates the item schema is in a derived array
DerivedItemsValid ==
    IsDerived => ItemsConform(derived.enforce, derived.schema, derived.value)

\* concat of an element that violates the item schema raises type mismatch,
\* and concat of a valid element is accepted
ConcatJudged ==
    attempt.op = "concat" =>
        /\ Rejected <=> ~Conforms(attempt.enforce, Schema(attempt.schema).items, Appended)
        /\ Rejected => attempt.kind = "type mismatch"

\* a step that changes one of the two arrays leaves the other as it is
OneAtATime ==
    IsDerived /\ IsDerived' =>
        \/ enforced'.value = enforced.value
        \/ derived'.value = derived.value

ConcatRefused == attempt.op = "concat" /\ Rejected /\ attempt.kind = "type mismatch"
SourcePushed ==
    /\ IsDerived /\ attempt.op = "push" /\ Accepted
    /\ Len(derived.value.v) < Len(enforced.value.v)
SpliceReturned ==
    /\ IsDerived /\ attempt.op = "splice" /\ derived.value.v # <<>>
    /\ Len(enforced.value.v) < Len(attempt.before.v)

RECURSIVE schemaAlong(_, _, _)
\* the sub-schema reached from a schema along a path of a value
schemaAlong(schema, value, path) ==
    IF path = <<>> THEN schema
    ELSE schemaAlong(schemaAt(schema, value, Head(path)), PropValue(value, Head(path)),
                     Tail(path))

NestedOps == {"nestedPush", "nestedWrite"}

\* a nested value is governed by the sub-schema of where it was read
GovernedBySubSchema ==
    IsNested => derived.schema = schemaAlong(enforced.schema, enforced.value, derived.path)

\* a push through a nested array is rejected, as a type mismatch, exactly
\* when the element violates the nested array's items schema
NestedPushJudged ==
    attempt.op = "nestedPush" =>
        /\ Rejected <=> ~Conforms(attempt.enforce, Schema(attempt.schema).items, Appended)
        /\ Rejected => attempt.kind = "type mismatch"

\* a write through a nested object is rejected exactly when the value
\* violates the sub-schema of its key
NestedWriteJudged ==
    attempt.op = "nestedWrite" /\ SubSchema(attempt.schema, attempt.key) # "" =>
        Rejected <=> ~Conforms(attempt.enforce, SubSchema(attempt.schema, attempt.key),
                               PropValue(attempt.candidate, attempt.key))

\* the enforced value holds the candidate at the nested path when the
\* mutation was accepted and what was there before when it was rejected
NestedCommitted ==
    attempt.op \in NestedOps =>
        at(enforced.value, derived.path) =
            IF Accepted THEN attempt.candidate ELSE attempt.before

NestedInitialRefused ==
    /\ attempt.op = "nestedPush" /\ Rejected
    /\ at(enforced.initial, derived.path) = attempt.before
NestedDeepRefused == attempt.op = "nestedPush" /\ Rejected /\ Len(derived.path) = 2
NestedWriteRefused == attempt.op = "nestedWrite" /\ Rejected
NestedPushAccepted ==
    /\ attempt.op = "nestedPush" /\ Accepted
    /\ enforced.value # enforced.initial

-----------------------------------------------------------------------------
(* Properties of the Materializer *)

IsMade == made.state = "made"

\* the node has a keyword applyTemplate fills a value from
Fills(schema) ==
    Has(schema, "default") \/ Has(schema, "x-template") \/ Has(schema, "x-variable")

RECURSIVE Barren(_)
\* nothing at or below the node can be filled
Barren(schema) ==
    /\ ~Fills(schema)
    /\ \A i \in SeqIndices(Schema(schema).allOf) : Barren(Schema(schema).allOf[i])
    /\ \A i \in SeqIndices(Schema(schema).properties) :
          Barren(Schema(schema).properties[i].v)

RECURSIVE CarriesAll(_, _)
\* the value carries every property the schema could fill, at every level
CarriesAll(schema, value) ==
    CASE Has(schema, "allOf") ->
            \A i \in SeqIndices(Schema(schema).allOf) :
                CarriesAll(Schema(schema).allOf[i], value)
      [] ~Has(schema, "allOf") /\ schemaType(schema) = "array" ->
            value.t = "array" /\ Has(schema, "items") =>
                \A i \in SeqIndices(value.v) : CarriesAll(Schema(schema).items, value.v[i])
      [] ~Has(schema, "allOf") /\ schemaType(schema) = "object" ->
            value.t \in {"object", "array"} =>
                /\ \A i \in SeqIndices(Schema(schema).properties) :
                      IF Schema(schema).properties[i].k \in KeySet(value)
                      THEN CarriesAll(Schema(schema).properties[i].v,
                                      PropValue(value, Schema(schema).properties[i].k))
                      ELSE Barren(Schema(schema).properties[i].v)
                /\ Schema(schema).additionalProperties \notin {"", "false"} =>
                      \A k \in KeySet(value) \ DeclaredKeys(schema) :
                          CarriesAll(Schema(schema).additionalProperties,
                                     PropValue(value, k))
      [] OTHER -> TRUE

\* a complete value: for a discriminator node with a value naming a known
\* subtype, complete for the subtype
Complete(schema, value) ==
    IF Has(schema, "discriminator") /\ second(Node(schema), value) # ""
    THEN CarriesAll(second(Node(schema), value), value)
    ELSE CarriesAll(schema, value)

RECURSIVE Plain(_)
\* neither the node nor a node below it is an allOf or carries a discriminator
Plain(schema) ==
    /\ ~Has(schema, "allOf") /\ ~Has(schema, "discriminator")
    /\ Has(schema, "items") => Plain(Schema(schema).items)
    /\ \A i \in SeqIndices(Schema(schema).properties) :
          Plain(Schema(schema).properties[i].v)
    /\ Schema(schema).additionalProperties \notin {"", "false"} =>
          Plain(Schema(schema).additionalProperties)

CompleteCall ==
    /\ IsMade /\ made.provided /\ made.value.t \in {"object", "array"}
    /\ Complete(made.schema, made.value)

Unchanged == ~made.raised /\ ~made.applied /\ made.result = made.value

\* C18: materialization is idempotent on complete values: for a plain
\* object, an array, an allOf node and a discriminator node, a supplied
\* value that carries every property the schema could fill comes back
\* deep-equal and flagged not applied.
C18_Idempotent == CompleteCall => Unchanged /\ same(made.result, made.value)

\* what is left of C18: idempotent where no allOf and no discriminator is involved
IdempotentWhenPlain == CompleteCall /\ Plain(made.schema) => Unchanged

\* the complete value the allOf node gives back empty, and complete values
\* that come back as they are
AllOfEmptied ==
    /\ CompleteCall /\ made.schema = "both" /\ ~made.raised
    /\ made.value = Obj(<<Prop("wings", Num(2)), Prop("legs", Num(2))>>)
    /\ made.result = Obj(<<>>)
PlainKept ==
    /\ CompleteCall /\ made.schema = "person" /\ Unchanged
    /\ KeySet(made.value) = {"name", "age", "size"}
AgainKept ==
    /\ CompleteCall /\ made.again /\ made.schema = "people" /\ Unchanged
    /\ made.value.v # <<>>

RECURSIVE Discriminates(_)
\* the node or a node below it carries a discriminator
Discriminates(schema) ==
    \/ Has(schema, "discriminator")
    \/ \E i \in SeqIndices(Schema(schema).allOf) : Discriminates(Schema(schema).allOf[i])
    \/ Has(schema, "items") /\ Discriminates(Schema(schema).items)
    \/ \E i \in SeqIndices(Schema(schema).properties) :
          Discriminates(Schema(schema).properties[i].v)

\* the call reaches applyTemplate
Applies ==
    /\ IsMade
    /\ made.options.useDefaults \/ made.options.useTemplates \/ made.options.useVariables

\* a discriminator node called without a value, or with undefined or null
NoValueAtDiscriminator ==
    /\ Applies /\ Has(made.schema, "discriminator") /\ ~Has(made.schema, "allOf")
    /\ made.value.t \in {"undefined", "null"}

\* a discriminator node called with a value that names an undefined subtype
MissingSubtype ==
    /\ Applies /\ Has(made.schema, "discriminator") /\ ~Has(made.schema, "allOf")
    /\ Discriminator(Node(made.schema)) \in KeySet(made.value)
    /\ second(Node(made.schema), made.value) = ""

\* C19: materialize never raises: a discriminator node without an initial
\* value, or with a value naming a subtype missing from the definitions,
\* returns the original value as not applied.
C19_NeverRaises ==
    /\ IsMade => ~made.raised
    /\ NoValueAtDiscriminator \/ MissingSubtype => Unchanged

\* what is left of C19: only a schema that reaches a discriminator raises
RaisesAtDiscriminatorOnly == IsMade /\ made.raised => Discriminates(made.schema)

RaisedWithoutValue == NoValueAtDiscriminator /\ ~made.provided /\ made.raised
RaisedOnMissingSubtype == MissingSubtype /\ made.raised

\* a value produced from the node's own default: no value supplied, no
\* variable bound and no template resolved before it
FromDefault ==
    /\ IsMade /\ ~made.provided /\ made.options.useDefaults
    /\ Has(made.schema, "default") /\ ~Has(made.schema, "allOf")
    /\ ~Has(made.schema, "x-variable") /\ ~Has(made.schema, "x-template")

\* C20: with auto-format on and no value supplied, a value produced from a
\* default is coerced to the schema's resolved type as a value taken from a
\* bound variable is: {type: 'integer', default: '5'} gives the integer 5.
C20_DefaultCoerced ==
    FromDefault /\ made.options.autoFormat =>
        /\ ~made.raised /\ made.applied
        /\ made.result = variable(made.options, made.schema, Schema(made.schema).default).value

\* what is left of C20: the default comes back as declared, a string default
\* through the injector
DefaultAsDeclared ==
    FromDefault => ~made.raised /\ made.applied /\ made.result = Schema(made.schema).default

\* the string '5' from the default of an integer; the integer 5 from a variable
DefaultKeptString ==
    /\ FromDefault /\ made.options.autoFormat /\ made.schema = "count"
    /\ made.result = Str("5")
VariableCoerced ==
    /\ IsMade /\ ~made.provided /\ made.options.autoFormat /\ made.schema = "size"
    /\ made.result = Num(5)

-----------------------------------------------------------------------------
(* Termination of validate and of applyTemplate *)

\* nodes that reach themselves through a combinator, and nodes that
\* applyTemplate reaches again from themselves
CombinatorLoops == {"loop", "anyLoop", "oneLoop", "notLoop"}
TemplateLoops == {"loop", "tree", "baseD", "baseE", "Duo"}

\* C15: validate and materialize run to completion for every finite schema
\* graph and every finite value under a finite maximum depth, schema graphs
\* that refer to themselves included: every walk down the calls of a call
\* comes to an end.
C15_Terminates == <>(frame = Returned)

\* what is left of C15: validate comes to an end on every node that does not
\* reach itself through allOf, anyOf, oneOf or not (through properties and
\* items it may), and applyTemplate on every node that does not reach itself,
\* for a value that does not name the subtype of two discriminator nodes
ValidateEnds ==
    (frame.fn = "validate" /\ frame.schema.name \notin CombinatorLoops) ~> (frame = Returned)
ApplyEnds ==
    (/\ frame.fn = "applyTemplate" /\ frame.schema.name \notin TemplateLoops
     /\ PropValue(frame.value, "kind") # Str("Duo"))
        ~> (frame = Returned)

\* a call of validate that makes the very same call, and one of applyTemplate
ValidateCallsItself ==
    /\ frame.fn = "validate"
    /\ [frame EXCEPT !.stack = 0] \in validateCalls(frame)
ApplyCallsItself ==
    /\ frame.fn = "applyTemplate" /\ frame.schema.name = "tree"
    /\ [frame EXCEPT !.stack = 0] \in applyCalls(frame)

\* two discriminator nodes of one subtype that call each other
DiscriminatorsCallEachOther ==
    /\ frame.fn = "applyTemplate" /\ frame.schema = Node("baseD")
    /\ \E g \in applyCalls(frame) :
          g.schema = Node("baseE") /\ [frame EXCEPT !.stack = 0] \in applyCalls(g)

\* validate on a tree node comes to the end of the value
TreeValidated ==
    /\ frame.fn = "validate" /\ frame.schema.name = "tree" /\ frame.depth = 2
    /\ validateCalls(frame) = {}

-----------------------------------------------------------------------------
(* Properties of exports.request *)

\* the query items of the handled request whose name the operation does not declare
Undeclared == {i \in SeqIndices(handled.query) : ~Declared(handled.query[i].name)}

\* the raw value the request carries last under the item's name
LastRaw(i) ==
    handled.query[CHOOSE j \in SeqIndices(handled.query) :
                    /\ handled.query[j].name = handled.query[i].name
                    /\ \A k \in SeqIndices(handled.query) :
                          handled.query[k].name = handled.query[i].name => k <= j].value

\* a defined path and method, and an undeclared query parameter in the request
CarriesUndeclared == handled # NotHandled /\ handled.defined /\ Undeclared # {}

\* the name of the item is no key of the result's query values
NotAmongQuery(i) ==
    handled.query[i].name \notin KeySet(PropValue(handled.result, "query"))

\* C21: with strict enabled, a request with an undeclared query parameter
\* ends with an error raised to the caller; with strict disabled and purge
\* enabled the parameter appears nowhere in the returned result; with both
\* disabled its raw value is among the query values of the result.
C21_UndeclaredQuery ==
    CarriesUndeclared =>
        /\ handled.options.strict => handled.raised
        /\ (~handled.options.strict /\ handled.options.purge /\ ~handled.raised) =>
              \A i \in Undeclared :
                  /\ handled.query[i].name \notin {"formData", "header", "path", "query"} =>
                        handled.query[i].name \notin KeySet(handled.result)
                  /\ NotAmongQuery(i)
        /\ (~handled.options.strict /\ ~handled.options.purge /\ ~handled.raised) =>
              \A i \in Undeclared :
                  PropValue(PropValue(handled.result, "query"), handled.query[i].name)
                      = Str(LastRaw(i))

\* what the code does with an undeclared query parameter: under strict it
\* notes an error in an array the caller never sees and returns a result
\* without the parameter, unless a declared parameter made parse throw
StrictReturns ==
    (CarriesUndeclared /\ handled.options.strict) =>
        /\ handled.raised <=>
              \E i \in SeqIndices(handled.query) : handled.query[i].name = "limit"
        /\ ~handled.raised =>
              /\ KeySet(handled.result) = {"formData", "header", "path", "query"}
              /\ \A i \in Undeclared : NotAmongQuery(i)

\* with strict disabled and purge enabled it leaves the parameter out
PurgeIgnores ==
    (CarriesUndeclared /\ ~handled.options.strict /\ handled.options.purge
        /\ ~handled.raised) =>
        /\ KeySet(handled.result) = {"formData", "header", "path", "query"}
        /\ \A i \in Undeclared : NotAmongQuery(i)

\* with both disabled it sets the raw value on the result itself, beside
\* formData, header, path and query, and not among the query values
PassedBeside ==
    (CarriesUndeclared /\ ~handled.options.strict /\ ~handled.options.purge
        /\ ~handled.raised) =>
        \A i \in Undeclared :
            /\ PropValue(handled.result, handled.query[i].name) = Str(LastRaw(i))
            /\ PropValue(handled.result, "query").t = "object" => NotAmongQuery(i)

\* a strict request with an undeclared parameter that returns a result
StrictReturned ==
    /\ CarriesUndeclared /\ handled.options.strict /\ ~handled.raised
    /\ Len(handled.errors) > 0

\* a request with both options disabled whose undeclared parameter is set
\* beside the query values
PassedOutsideQuery ==
    /\ CarriesUndeclared /\ ~handled.options.strict /\ ~handled.options.purge
    /\ ~handled.raised
    /\ \E i \in Undeclared : handled.query[i].name = "zz" /\ NotAmongQuery(i)

\* an undeclared parameter named query replaces the query values
QueryReplaced ==
    /\ handled # NotHandled /\ ~handled.raised
    /\ PropValue(handled.result, "query") = Str("9")

\* a purged request that returns the declared parameters only
Purged ==
    /\ CarriesUndeclared /\ ~handled.options.strict /\ handled.options.purge
    /\ ~handled.raised
    /\ PropValue(PropValue(handled.result, "query"), "flag") = Bool(TRUE)

-----------------------------------------------------------------------------
(* Properties of the dispatch of validate *)

\* the combinator is present on the node of the call and its rule is enabled
Counts(combinator) == call.options[combinator] /\ Has(call.schema, combinator)

\* the first of anyOf, oneOf, allOf, not that counts, else the type-specific checker
Branch ==
    CASE Counts("anyOf") -> "anyOf"
      [] Counts("oneOf") -> "oneOf"
      [] Counts("allOf") -> "allOf"
      [] Counts("not") -> "not"
      [] OTHER -> "type"

\* the context after one branch alone has run on the node of the call
Only(branch) ==
    CASE branch = "anyOf" ->
            anyOfReport(Context(call.options, call.before), RootPrefix,
                        anyOf(Context(call.options, call.before), nestedPrefix(RootPrefix),
                              0, Schema(call.schema).anyOf, call.value))
      [] branch = "oneOf" ->
            oneOfReport(Context(call.options, call.before), RootPrefix,
                        anyOf(Context(call.options, call.before), nestedPrefix(RootPrefix),
                              0, Schema(call.schema).oneOf, call.value))
      [] branch = "allOf" ->
            allOfEach(Context(call.options, call.before), RootPrefix, 0,
                      Schema(call.schema).allOf, call.value)
      [] branch = "not" ->
            not(Context(call.options, call.before), RootPrefix, 0,
                Schema(call.schema).not, call.value)
      [] OTHER ->
            validateType(schemaType(call.schema), Context(call.options, call.before),
                         RootPrefix, 0, call.schema, call.value)

RECURSIVE MemberErrors(_, _)
\* the errors of members i, i + 1, ... each validated on its own, one after the other
MemberErrors(members, i) ==
    IF i > Len(members) THEN <<>>
    ELSE BranchResult(call.options, members[i], call.value).errors
            \o MemberErrors(members, i + 1)

\* no member of the node's allOf throws on the value
MembersReturn ==
    \A i \in SeqIndices(Schema(call.schema).allOf) :
        ~BranchResult(call.options, Schema(call.schema).allOf[i], call.value).raised

\* C22: validate runs exactly one dispatch branch, the first of anyOf, oneOf,
\* allOf, not that is present with its rule enabled, else the type-specific
\* checker; with allOf every member validates the value and the members'
\* errors follow the earlier errors in member order.
C22_Dispatch ==
    done =>
        /\ errors = Only(Branch).errors
        /\ raised = Only(Branch).raised
        /\ (Branch = "allOf" /\ MembersReturn) =>
              /\ ~raised
              /\ errors = call.before \o MemberErrors(Schema(call.schema).allOf, 1)

\* an allOf call whose two members both leave errors, distinct ones
C22_Witness ==
    /\ done /\ ~raised /\ Branch = "allOf" /\ call.schema = "mixed"
    /\ Len(BranchResult(call.options, "short", call.value).errors) = 2
    /\ Len(BranchResult(call.options, "atLeast1", call.value).errors) = 1
    /\ Len(errors) = 3

\* a node with anyOf and a type: the value passes anyOf and the type is not checked
TypeSkipped ==
    /\ done /\ Branch = "anyOf" /\ call.schema = "mixed" /\ errors = <<>>
    /\ Len(validateType("boolean", Context(call.options, <<>>), RootPrefix, 0,
                        call.schema, call.value).errors) = 1

\* the type-specific checker of a node whose combinators are all disabled
TypeChecked ==
    /\ done /\ Branch = "type" /\ call.schema = "mixed" /\ Len(errors) = 1

\* the not branch of a node that also has a disabled anyOf and allOf
NotChosen ==
    /\ done /\ Branch = "not" /\ call.schema = "mixed" /\ Len(errors) = 1

\* the value of the call validated against the not schema, on its own
AgainstNot == BranchResult(call.options, Schema(call.schema).not, call.value)

\* C23: on a node with not (rule enabled) validate adds exactly one record
\* ('Should not pass schema.') iff validating the value against the not
\* schema leaves zero errors, and adds nothing otherwise; the errors of that
\* inner validation are not in the outer sequence, and the earlier records
\* stay, in order.
C23_Not ==
    (done /\ Branch = "not") =>
        /\ raised <=> AgainstNot.raised
        /\ ~raised =>
              errors = IF Len(AgainstNot.errors) = 0
                       THEN Append(call.before,
                                   [prefix |-> RootPrefix, message |-> [code |-> "not"]])
                       ELSE call.before

\* a not call after earlier errors, on a value that passes the not schema
C23_Witness ==
    /\ done /\ ~raised /\ Branch = "not" /\ call.before # <<>>
    /\ Len(AgainstNot.errors) = 0
    /\ Len(errors) = Len(call.before) + 1

\* a not call after earlier errors, on a value the not schema rejects
NotSatisfied ==
    /\ done /\ ~raised /\ Branch = "not" /\ call.before # <<>>
    /\ Len(AgainstNot.errors) > 0
    /\ errors = call.before

-----------------------------------------------------------------------------
(* Properties of discriminate *)

\* no element of the list twice
Once(list) == \A i, j \in SeqIndices(list) : list[i] = list[j] => i = j

\* a resolution under way or ended
Resolving == frame.fn \in {"discriminate", "resolved"}

\* a step of the resolution does not expand a node of the map
ExpandsNew ==
    (frame.fn = "discriminate" /\ frame'.fn = "discriminate"
        /\ Head(frame.pending) \in frame.map) =>
        /\ frame'.expanded = frame.expanded
        /\ frame'.allOf = frame.allOf
        /\ frame'.map = frame.map

\* C24: discriminator resolution for one object validation terminates on
\* every definitions graph, a subtype whose allOf contains its base and a
\* discriminator that selects its own schema included; the list of effective
\* schemas holds each node at most once, and a node visited in the
\* resolution is never expanded again.
C24_Resolves ==
    /\ (frame.fn = "discriminate") ~> (frame.fn = "resolved")
    /\ [](Resolving => Once(frame.allOf) /\ Once(frame.expanded))
    /\ [][ExpandsNew]_vars

\* the call-by-call resolution ends with the list and the errors the
\* recursive function returns
ResolvesAsDiscriminate ==
    frame.fn = "resolved" =>
        /\ frame.allOf = discriminate(Context(frame.v.options, <<>>), {}, <<>>,
                                      RootPrefix, frame.schema, frame.value).allOf
        /\ frame.v = discriminate(Context(frame.v.options, <<>>), {}, <<>>,
                                  RootPrefix, frame.schema, frame.value).v

\* a subtype whose allOf contains the base that selected it, resolved: the
\* base was met again and the list holds it once
C24_Witness ==
    /\ frame.fn = "resolved" /\ frame.schema = "animal"
    /\ frame.value = Obj(<<Prop("kind", Str("Cat"))>>)
    /\ frame.allOf = <<"animal", "needsFoo">>
    /\ frame.expanded = <<"animal", "Cat", "needsFoo">>

\* a discriminator that selects its own schema, resolved
SelfResolved ==
    /\ frame.fn = "resolved" /\ frame.schema = "Self"
    /\ frame.value = Obj(<<Prop("kind", Str("Self"))>>)
    /\ frame.allOf = <<"Self">>

\* a node of the map is met again
Revisited ==
    /\ frame.fn = "discriminate" /\ frame.pending # <<>>
    /\ Head(frame.pending) \in frame.map

\* two discriminator nodes of one subtype, each selecting the subtype
ChainResolved ==
    /\ frame.fn = "resolved" /\ frame.schema = "baseD"
    /\ frame.allOf = <<"baseD", "baseE">>

-----------------------------------------------------------------------------
(* Properties of the required check *)

RECURSIVE EffectiveSchemas(_, _, _)
\* the schemas the object validations of a call hold the value to: for each
\* member an enabled allOf leads to, the list its discriminator resolution gives
EffectiveSchemas(options, schema, value) ==
    IF options.allOf /\ Has(schema, "allOf")
    THEN UNION {EffectiveSchemas(options, Schema(schema).allOf[i], value) :
                    i \in SeqIndices(Schema(schema).allOf)}
    ELSE IF schemaType(schema) = "object"
         THEN {discriminate(Context(options, <<>>), {}, <<>>, RootPrefix, schema, value).allOf[i] :
                  i \in SeqIndices(discriminate(Context(options, <<>>), {}, <<>>, RootPrefix,
                                                schema, value).allOf)}
         ELSE {}

\* the required names of the schema that are no key of the value
Missing(schema, value) ==
    {Schema(schema).required[i] : i \in SeqIndices(Schema(schema).required)} \ KeySet(value)

\* the call is an object validation of a non-null object, required rule enabled
RequiredCall ==
    /\ done /\ ~raised
    /\ Branch \in {"allOf", "type"}
    /\ call.options.required /\ call.options.object
    /\ call.value.t \in {"object", "array"}
    /\ EffectiveSchemas(call.options, call.schema, call.value) # {}

\* the missing-required records the call added at the path of the object
MissingRecords ==
    {i \in Reports("required") : errors[i].prefix = RootPrefix}

\* C25: with the required rule enabled, object validation records a
\* missing-required error iff a name in the required list of at least one
\* effective schema (allOf members, discriminator-selected subtype) is no
\* key of the value; a key of the value satisfies every effective schema
\* that lists it, whichever schema declares the property.
C25_Required ==
    RequiredCall =>
        /\ MissingRecords # {} <=>
              \E s \in EffectiveSchemas(call.options, call.schema, call.value) :
                  Missing(s, call.value) # {}
        /\ \A i \in MissingRecords :
              /\ errors[i].message.missing # <<>>
              /\ \A j \in SeqIndices(errors[i].message.missing) :
                    errors[i].message.missing[j] \notin KeySet(call.value)

\* a name required by one member and declared by another is a key of the
\* value: the one record is about the name the other member requires
C25_Witness ==
    /\ RequiredCall /\ call.schema = "paired"
    /\ EffectiveSchemas(call.options, call.schema, call.value) = {"needsBar", "record"}
    /\ "bar" \in KeySet(call.value) /\ "foo" \notin KeySet(call.value)
    /\ \A i \in MissingRecords : errors[i].message.missing = <<"foo">>
    /\ Cardinality(MissingRecords) = 1

\* the subtype a discriminator selects requires a name the value lacks
SubtypeRequires ==
    /\ RequiredCall /\ call.schema = "animal"
    /\ PropValue(call.value, "kind") = Str("Cat")
    /\ "needsFoo" \in EffectiveSchemas(call.options, call.schema, call.value)
    /\ MissingRecords # {}

\* two members both miss a name: one record each
BothMissing ==
    /\ RequiredCall /\ call.schema = "paired" /\ call.value = Obj(<<>>)
    /\ Cardinality(MissingRecords) = 2

-----------------------------------------------------------------------------
(* Properties of the string checks *)

\* the call reaches the type switch on a node whose resolved type is string
StringCall ==
    /\ done /\ Branch = "type" /\ schemaType(call.schema) = "string"
    /\ call.options.string

\* the string of the call breaks the rule of the node, which is enabled
BreaksMaxLength ==
    /\ call.options.maxLength /\ Has(call.schema, "maxLength")
    /\ Len(call.value.v) > Schema(call.schema).maxLength
BreaksMinLength ==
    /\ call.options.minLength /\ Has(call.schema, "minLength")
    /\ Len(call.value.v) < Schema(call.schema).minLength
BreaksPattern ==
    /\ call.options.pattern /\ Has(call.schema, "pattern")
    /\ ~RegExpTest(Schema(call.schema).pattern, call.value.v)
BreaksEnum ==
    /\ call.options.enum /\ Has(call.schema, "enum")
    /\ ~enumFound(call.schema, call.value)

\* a value that is no string leaves a type error; a string leaves the
\* errors of the enabled maxLength, minLength, pattern and enum rules it breaks
StringChecked ==
    /\ ~raised
    /\ Typeof(call.value) # "string" => Reports("type") # {}
    /\ Typeof(call.value) = "string" =>
          /\ Reports("maxLength") # {} <=> BreaksMaxLength
          /\ Reports("minLength") # {} <=> BreaksMinLength
          /\ Reports("pattern") # {} <=> BreaksPattern
          /\ Reports("enum") # {} <=> BreaksEnum

\* C26: for every node whose resolved type is string, whatever its format
\* (binary, byte, date, date-time, none, any other name), a value that is no
\* string is reported as a type error and a string is checked against the
\* enabled maxLength, minLength, pattern and enum rules.
C26_StringFormats == StringCall => StringChecked

\* what the code does: the claim for the four specialised formats and for no
\* format, for values other than null and undefined on a node without
\* format, and for strings of the shape a date format asks for
StringFormatsKnown ==
    (/\ StringCall
     /\ Schema(call.schema).format \in {"", "binary", "byte", "date", "date-time"}
     /\ Schema(call.schema).format = "" => call.value.t \notin {"null", "undefined"}
     /\ (Schema(call.schema).format = "date" /\ call.value.t = "string")
            => is_date(call.value.v)
     /\ (Schema(call.schema).format = "date-time" /\ call.value.t = "string")
            => is_dateTime(call.value.v))
        => StringChecked

\* a node with another format name is not checked at all
OtherFormatUnchecked ==
    StringCall /\ Schema(call.schema).format = "email" => ~raised /\ errors = call.before

\* a number passes a string node whose format is email
NumberPassesEmail ==
    /\ StringCall /\ call.schema = "emailed" /\ call.value = Num(1)
    /\ errors = call.before

\* a string above maxLength passes a string node whose format is email
LongPassesEmail ==
    /\ StringCall /\ call.schema = "emailed" /\ call.value = Str("ab")
    /\ BreaksMaxLength /\ errors = call.before

\* a full-date above maxLength: the string rules follow the format check
DateTooLong ==
    /\ StringCall /\ call.schema = "dated" /\ call.value = Str("2000-01-01")
    /\ Reports("maxLength") # {}

\* a string that is no full-date is reported as such and not checked further
IllFormedDate ==
    /\ StringCall /\ call.schema = "dated" /\ call.value = Str("ab")
    /\ Reports("type") # {} /\ Reports("maxLength") = {}

\* a string that is not base64 is reported and still checked against maxLength
BytesTooLong ==
    /\ StringCall /\ call.schema = "bytes" /\ call.value = Str("ab")
    /\ Reports("byte") # {} /\ Reports("maxLength") # {}

-----------------------------------------------------------------------------
(* Properties of the depth limit *)

\* the configuration that applies the rules of a container itself and
\* validates none of its elements and declared properties
OwnRules(options) == [Without(options, {"items", "properties"}) EXCEPT !.depth = 9]

RECURSIVE ElementErrors(_, _, _, _)
\* the errors of elements i, i + 1, ... of the array, each held to the rules
\* of the element itself under the configuration
ElementErrors(options, schema, value, i) ==
    IF i > Len(value.v) THEN <<>>
    ELSE validate(Context(options, <<>>), Sub(RootPrefix, IndexKey[i]), 1,
                  Schema(schema).items, value.v[i]).errors
            \o ElementErrors(options, schema, value, i + 1)

\* an array validated with a maximum depth of 1: its elements are reached at
\* the maximum depth
ElementsAtLimit ==
    /\ done /\ ~raised /\ call.options.depth = 1
    /\ Branch = "type" /\ schemaType(call.schema) = "array" /\ Has(call.schema, "items")
    /\ IsArray(call.value)

\* the errors of the array itself
OwnErrors ==
    validate(Context(Without(call.options, {"items"}), <<>>), RootPrefix, 0,
             call.schema, call.value).errors

\* C27: a container reached at the maximum depth has none of its elements
\* or properties validated and the operation does not fail; the rules of the
\* container itself (array length bounds and uniqueness, required
\* properties, property-count bounds, rejection of undeclared keys under
\* additionalProperties: false) are still applied.
C27_AtMaxDepth ==
    ElementsAtLimit =>
        errors = call.before \o OwnErrors
                    \o ElementErrors(OwnRules(call.options), call.schema, call.value, 1)

\* what the code does: at the maximum depth the undeclared keys of an object
\* are not rejected either; the other rules of the container are applied
AtMaxDepthButUndeclared ==
    ElementsAtLimit =>
        errors = call.before \o OwnErrors
                    \o ElementErrors(Without(OwnRules(call.options), {"additionalProperties"}),
                                     call.schema, call.value, 1)

\* an object at the maximum depth with an undeclared key under
\* additionalProperties: false: required and the property count are
\* reported, the undeclared key and the ill-typed property are not
UndeclaredAtLimit ==
    /\ ElementsAtLimit /\ call.schema = "stricts"
    /\ call.value = Arr(<<Obj(<<Prop("foo", Str("a")), Prop("bar", Null)>>)>>)
    /\ Reports("required") # {} /\ Reports("maxProperties") # {}
    /\ Reports("additionalProperties") = {} /\ Reports("type") = {}

\* an array at the maximum depth: uniqueness is reported, its ill-typed
\* elements are not
ArrayAtLimit ==
    /\ ElementsAtLimit /\ call.schema = "rows"
    /\ call.value = Arr(<<Arr(<<Str("a"), Str("a")>>)>>)
    /\ Reports("uniqueItems") # {} /\ Reports("type") = {}

\* the same object below the maximum depth: the undeclared key is rejected
UndeclaredBelowLimit ==
    /\ done /\ ~raised /\ call.options = AllRules /\ call.schema = "stricts"
    /\ IsArray(call.value) /\ Reports("additionalProperties") # {}

-----------------------------------------------------------------------------
(* Properties of the Materializer on allOf nodes *)

\* a call on an allOf node that reaches applyTemplate and returns
AllOfCall == Applies /\ ~made.raised /\ Has(made.schema, "allOf")

\* member i of the node materialized on its own
MemberData(i) ==
    applyTemplate(Node(Schema(made.schema).allOf[i]), made.options, made.params, TRUE,
                  IF made.provided THEN made.value ELSE Obj(<<>>))

\* the members whose materialization was applied
AppliedMembers == {i \in SeqIndices(Schema(made.schema).allOf) : MemberData(i).applied}

RECURSIVE MergedFrom(_, _)
\* the results of the applied members i, i + 1, ... merged onto the target
\* in declaration order
MergedFrom(i, target) ==
    IF i > Len(Schema(made.schema).allOf) THEN target
    ELSE MergedFrom(i + 1, IF MemberData(i).applied
                           THEN assign(target, MemberData(i).value) ELSE target)

\* C28: materializing an allOf node materializes each member on its own and
\* shallow-merges the members' results in declaration order (for a key
\* produced by several members the last member's value is in the result);
\* the result is flagged applied iff at least one member's materialization
\* was applied.
C28_AllOfMerge ==
    AllOfCall =>
        /\ made.result = MergedFrom(1, Obj(<<>>))
        /\ made.applied <=> AppliedMembers # {}

\* what the code does: the merge as stated, the flag set from two applied
\* members on
AppliedFromTwo ==
    AllOfCall =>
        /\ made.result = MergedFrom(1, Obj(<<>>))
        /\ made.applied <=> Cardinality(AppliedMembers) >= 2

\* one member applied: its result is the value returned, flagged not applied
OneMemberApplied ==
    /\ AllOfCall /\ Cardinality(AppliedMembers) = 1
    /\ ~made.applied /\ made.result # Obj(<<>>)

\* two members produce the key wings: the second member's value is returned
LastMemberWins ==
    /\ AllOfCall /\ made.schema = "flock" /\ AppliedMembers = {1, 2}
    /\ PropValue(MemberData(1).value, "wings") = Num(2)
    /\ PropValue(MemberData(2).value, "wings") = Num(4)
    /\ PropValue(made.result, "wings") = Num(4)

-----------------------------------------------------------------------------
(* Properties of the Materializer: the required guard of an object node     *)

\* a call that returns from the object branch of the node it was given,
\* with missing required properties not ignored
GuardedCall ==
    /\ Applies /\ ~made.raised /\ ~made.options.ignoreMissingRequired
    /\ schemaType(made.schema) = "object"
    /\ ~Has(made.schema, "allOf") /\ ~Has(made.schema, "discriminator")
    /\ made.provided => Truthy(made.value) /\ Typeof(made.value) = "object"

\* the materialization of the property with the key k of the node
PropertyData(k) ==
    IF hasOwnProperty(made.value, k)
    THEN applyTemplate(Node(PropValue(Obj(Schema(made.schema).properties), k)),
                       made.options, made.params, TRUE, PropValue(made.value, k))
    ELSE applyTemplate(Node(PropValue(Obj(Schema(made.schema).properties), k)),
                       made.options, made.params, FALSE, Undefined)

\* the declared properties the node fills
Filled ==
    {k \in DeclaredKeys(made.schema) :
        /\ looksInto(made.options, PropValue(Obj(Schema(made.schema).properties), k))
        /\ PropertyData(k).applied}

\* the required names that are no key of the result once the properties
\* have been materialized
StillMissing ==
    {Schema(made.schema).required[i] : i \in SeqIndices(Schema(made.schema).required)}
        \ (KeySet(made.value) \cup Filled)

\* C29: when missing required properties are not ignored and, after the
\* properties of an object node have been materialized, some required name
\* is still not a key of the result, the node returns the original
\* (possibly undefined) value with applied == false: nothing the node
\* filled is in the output.
C29_RequiredGuard ==
    GuardedCall /\ StillMissing # {} =>
        /\ ~made.applied
        /\ made.result = made.value

\* a property was filled from its default and the required name was not:
\* the call without a value returns undefined, the call with a value the
\* value as it was
C29_Witness ==
    /\ GuardedCall /\ made.schema = "person" /\ StillMissing = {"name"}
    /\ "age" \in Filled
    /\ ~made.applied /\ made.result = made.value
    /\ ~hasOwnProperty(made.result, "age")

DiscardedUndefined == C29_Witness /\ ~made.provided /\ made.result = Undefined
DiscardedProvided == C29_Witness /\ made.provided /\ made.value.t = "object"

\* the same schema with every required name among the keys: the filled
\* properties are returned
RequiredPresentKept ==
    /\ GuardedCall /\ made.schema = "person" /\ StillMissing = {} /\ "age" \in Filled
    /\ made.applied /\ hasOwnProperty(made.result, "age")

\* an item of an array whose node is discarded stays as it was
DiscardedItem ==
    /\ Applies /\ ~made.raised /\ ~made.options.ignoreMissingRequired
    /\ made.schema = "people" /\ made.value = Arr(<<Obj(<<>>)>>) /\ made.params = <<>>
    /\ made.options.useDefaults
    /\ ~made.applied /\ made.result = made.value

-----------------------------------------------------------------------------
(* Properties of the Materializer: the inputs after a call                  *)

IsShared == made.state = "shared"

\* every object and array that was there before the call is as it was:
\* the initial value and what is below it, the params, the defaults
CellsKept ==
    \A a \in SeqIndices(made.before.cells) : made.after.cells[a] = made.before.cells[a]

\* every schema node that was there before the call has its discriminator
NodesKept ==
    \A node \in DOMAIN made.before.discriminator :
        made.after.discriminator[node] = made.before.discriminator[node]

\* the objects of the params and of the defaults
SharedAddresses == Reach(made.before, Ref(1)) \cup Reach(made.before, Ref(3))

\* C30: materialize never mutates its inputs: after any call the initial
\* value and every object or array nested in it, the schema nodes (the node
\* rewritten for a discriminator among them) and the params are what they
\* were before the call, and a value taken from a variable or from a
\* non-string default is a deep copy that shares no object or array with
\* the params or with the schema.
C30_InputsKept ==
    IsShared =>
        /\ CellsKept
        /\ NodesKept
        /\ Reach(made.after, made.result) \cap SharedAddresses = {}

\* both copies are in the result of a call with a value: the result is a
\* new object, the value has the keys it had
C30_Witness ==
    /\ IsShared /\ made.schema = "crate" /\ made.provided /\ made.applied
    /\ made.value = Ref(5) /\ made.result # made.value
    /\ made.before.cells[5] = Obj(<<Prop("a", Ref(6))>>)
    /\ made.after.cells[5] = Obj(<<Prop("a", Ref(6))>>)
    /\ KeySet(At(made.after, made.result)) = {"a", "box", "lid"}
    /\ PropValue(At(made.after, made.result), "a") = Ref(6)
    /\ Tree(made.after, PropValue(At(made.after, made.result), "box"))
          = Tree(made.before, Ref(1))
    /\ Tree(made.after, PropValue(At(made.after, made.result), "lid"))
          = Tree(made.before, Ref(3))
    /\ Reach(made.after, made.result) \cap SharedAddresses = {}

\* the call over the store returns what the call on plain values returns
SameAsMaterialize ==
    IsShared /\ made.schema \in MaterializedSchemas =>
        /\ made.raised = materialize(made.schema, made.options, made.params, made.provided,
                                     Tree(made.before, made.value)).raised
        /\ made.applied = materialize(made.schema, made.options, made.params, made.provided,
                                      Tree(made.before, made.value)).applied
        /\ Tree(made.after, made.result)
              = materialize(made.schema, made.options, made.params, made.provided,
                            Tree(made.before, made.value)).value

\* the node of a discriminator is rewritten and keeps its discriminator
RewrittenKept ==
    /\ IsShared /\ made.schema = "animal" /\ ~made.raised
    /\ Copy("animal") \in DOMAIN made.after.discriminator
    /\ made.after.discriminator[Copy("animal")] = ""
    /\ made.after.discriminator[Node("animal")] = "kind"

\* an item of the initial array is replaced in the new array and is as it
\* was in the initial one
ItemKept ==
    /\ IsShared /\ made.schema = "crates" /\ made.applied /\ ~made.again
    /\ made.before.cells[5] = Arr(<<Ref(6)>>)
    /\ made.after.cells[5] = Arr(<<Ref(6)>>) /\ made.after.cells[6] = Obj(<<>>)
    /\ Tree(made.after, made.result) # Tree(made.after, made.value)

====
